---- MODULE Spec2Model ----
(***************************************************************************)
(* A model of buns: the script runner pipeline (internal/cli, internal/    *)
(* exec), the sandbox backends (internal/sandbox), the filtering proxies   *)
(* (internal/proxy), the dependency cache key (internal/cache) and the     *)
(* Bun version resolver (internal/bun).                                    *)
(*                                                                         *)
(* Strings the code inspects character by character (host names, package   *)
(* specs) are sequences of one-character strings, so that lowercasing,     *)
(* sorting, port stripping and suffix matching are computed, not assumed.  *)
(***************************************************************************)
EXTENDS Integers, Sequences, FiniteSets, TLC

(***************************************************************************)
(* Bounds of the model.                                                    *)
(***************************************************************************)
MaxRuns == 2        \* invocations of runScript in one behaviour
MaxPkgs == 2        \* length of the package lists given to HashPackages
MaxVersions == 2    \* length of the version lists given to Resolve
MaxRequests == 2    \* client requests handled by the proxies in one behaviour
MaxTimeout == 2     \* the --timeout value, in seconds, of the runs that set one

(***************************************************************************)
(* Characters and strings.                                                 *)
(***************************************************************************)
\* The byte value of the characters the model uses (sort.Strings compares bytes).
Code(c) ==
    CASE c = "\n" -> 10
      [] c = " " -> 32
      [] c = "*" -> 42
      [] c = "." -> 46
      [] c = "1" -> 49
      [] c = "8" -> 56
      [] c = ":" -> 58
      [] c = "@" -> 64
      [] c = "A" -> 65
      [] c = "B" -> 66
      [] c = "X" -> 88
      [] c = "[" -> 91
      [] c = "]" -> 93
      [] c = "a" -> 97
      [] c = "b" -> 98
      [] c = "e" -> 101
      [] c = "v" -> 118
      [] c = "x" -> 120
      [] OTHER -> 0

\* strings.ToLower on one character.
LowerChar(c) ==
    CASE c = "A" -> "a"
      [] c = "B" -> "b"
      [] c = "X" -> "x"
      [] OTHER -> c

\* strings.ToLower
ToLower(s) == [i \in DOMAIN s |-> LowerChar(s[i])]

\* The byte-wise order of Go strings: a <= b.
RECURSIVE StrLessEq(_, _)
StrLessEq(a, b) ==
    IF a = << >> THEN TRUE
    ELSE IF b = << >> THEN FALSE
    ELSE IF Code(a[1]) < Code(b[1]) THEN TRUE
    ELSE IF Code(a[1]) > Code(b[1]) THEN FALSE
    ELSE StrLessEq(Tail(a), Tail(b))

\* Insert x into an ascending list.
RECURSIVE InsertSorted(_, _)
InsertSorted(x, l) ==
    IF l = << >> THEN << x >>
    ELSE IF StrLessEq(x, l[1]) THEN << x >> \o l
    ELSE << l[1] >> \o InsertSorted(x, Tail(l))

\* sort.Strings: the ascending byte-wise order of the list's elements.
RECURSIVE SortStrings(_)
SortStrings(l) ==
    IF l = << >> THEN << >>
    ELSE InsertSorted(l[1], SortStrings(Tail(l)))

\* strings.Join
RECURSIVE Join(_, _)
Join(l, sep) ==
    IF l = << >> THEN << >>
    ELSE IF Len(l) = 1 THEN l[1]
    ELSE l[1] \o << sep >> \o Join(Tail(l), sep)

\* strings.Index for one character: the first position of c in s, 0 if none.
IndexOf(s, c) ==
    IF \E i \in DOMAIN s : s[i] = c
    THEN CHOOSE i \in DOMAIN s : s[i] = c /\ \A j \in 1..(i - 1) : s[j] # c
    ELSE 0

\* The number of occurrences of c in s.
CountOf(s, c) == Cardinality({i \in DOMAIN s : s[i] = c})

\* strings.HasSuffix
HasSuffix(s, suf) ==
    /\ Len(suf) <= Len(s)
    /\ SubSeq(s, Len(s) - Len(suf) + 1, Len(s)) = suf

\* strings.HasPrefix
HasPrefix(s, pre) ==
    /\ Len(pre) <= Len(s)
    /\ SubSeq(s, 1, Len(pre)) = pre

\* All sequences over S of length at most n.
SeqUpTo(S, n) == UNION {[1..k -> S] : k \in 0..n}

(***************************************************************************)
(* internal/cache: the dependency cache key.                               *)
(***************************************************************************)
\* sha256.Sum256 followed by hex.EncodeToString, taken as collision-free:
\* the digest is identified with the bytes it was computed from.
Sha256Hex(bytes) == << "sha256", bytes >>

\* HashPackages: copy, sort, THEN lowercase each element, join, hash.
HashPackages(packages) ==
    LET sorted == SortStrings(packages)
        lowered == [i \in DOMAIN sorted |-> ToLower(sorted[i])]
    IN Sha256Hex(Join(lowered, "\n"))

(***************************************************************************)
(* internal/proxy: the domain filter.                                      *)
(***************************************************************************)
\* strings.TrimSpace
RECURSIVE TrimLeft(_)
TrimLeft(s) == IF s # << >> /\ s[1] = " " THEN TrimLeft(Tail(s)) ELSE s

RECURSIVE TrimRight(_)
TrimRight(s) ==
    IF s # << >> /\ s[Len(s)] = " " THEN TrimRight(SubSeq(s, 1, Len(s) - 1)) ELSE s

TrimSpace(s) == TrimRight(TrimLeft(s))

\* A host without its :port suffix and without IPv6 brackets.
StripPort(h) ==
    IF h # << >> /\ h[1] = "["
    THEN LET close == IndexOf(h, "]")
         IN IF close = 0 THEN h ELSE SubSeq(h, 2, close - 1)
    ELSE IF CountOf(h, ":") = 1 THEN SubSeq(h, 1, IndexOf(h, ":") - 1)
    ELSE h

\* The form in which hosts and rules are compared.
NormalizeHost(h) == ToLower(StripPort(TrimSpace(h)))

NewDomainFilter == [allowAll |-> FALSE, rules |-> {}]

AllowAll(f) == [f EXCEPT !.allowAll = TRUE]

\* AddAllowed ignores blank entries.
AddAllowed(f, domain) ==
    IF TrimSpace(domain) = << >> THEN f
    ELSE [f EXCEPT !.rules = @ \cup {NormalizeHost(domain)}]

\* RuleMatches with a wildcard that also matches the bare suffix.
RuleMatchesBareSuffix(rule, h) ==
    IF HasPrefix(rule, << "*", "." >>)
    THEN HasSuffix(h, Tail(rule)) \/ h = Tail(Tail(rule))
    ELSE rule = h

\* One rule against a normalized host: *.suffix matches hosts ending in
\* .suffix (never the suffix itself), any other rule matches itself only.
RuleMatches(rule, h) ==
    IF HasPrefix(rule, << "*", "." >>)
    THEN HasSuffix(h, Tail(rule))
    ELSE rule = h

IsAllowed(f, host) ==
    \/ f.allowAll
    \/ \E rule \in f.rules : RuleMatches(rule, NormalizeHost(host))

(***************************************************************************)
(* Masterminds/semver as internal/bun uses it.                             *)
(***************************************************************************)
\* A version is [maj, min, pat, pre]; pre is "" for a release.
Ver(maj, min, pat, pre) == [maj |-> maj, min |-> min, pat |-> pat, pre |-> pre]

\* Version.Compare: -1, 0 or 1. A prerelease sorts below its release.
CmpInt(a, b) == IF a < b THEN -1 ELSE IF a > b THEN 1 ELSE 0

Compare(v, w) ==
    IF v.maj # w.maj THEN CmpInt(v.maj, w.maj)
    ELSE IF v.min # w.min THEN CmpInt(v.min, w.min)
    ELSE IF v.pat # w.pat THEN CmpInt(v.pat, w.pat)
    ELSE IF v.pre = w.pre THEN 0
    ELSE IF v.pre = "" THEN 1
    ELSE IF w.pre = "" THEN -1
    ELSE 0

\* One comparator of a constraint against a version (Constraints.Check).
\* A prerelease version never satisfies a comparator without a prerelease.
CheckComparator(c, v) ==
    IF v.pre # "" /\ c.ver.pre = "" THEN FALSE
    ELSE CASE c.op = "=" -> Compare(v, c.ver) = 0
           [] c.op = "!=" -> Compare(v, c.ver) # 0
           [] c.op = ">" -> Compare(v, c.ver) = 1
           [] c.op = ">=" -> Compare(v, c.ver) >= 0
           [] c.op = "<" -> Compare(v, c.ver) = -1
           [] c.op = "<=" -> Compare(v, c.ver) <= 0
           [] c.op = "~" -> /\ Compare(v, c.ver) >= 0
                            /\ v.maj = c.ver.maj
                            /\ v.min = c.ver.min
           [] c.op = "^" -> /\ Compare(v, c.ver) >= 0
                            /\ IF c.ver.maj > 0 THEN v.maj = c.ver.maj
                               ELSE /\ v.maj = 0
                                    /\ IF c.ver.min > 0 THEN v.min = c.ver.min
                                       ELSE v.min = 0 /\ v.pat = c.ver.pat
           [] OTHER -> FALSE

\* The text of a version and of a constraint, as tokens; the hyphen that
\* introduces a prerelease and the hyphen of a range "lo - hi" are tokens.
Digit(n) ==
    CASE n = 0 -> "0" [] n = 1 -> "1" [] n = 2 -> "2" [] n = 3 -> "3" [] n = 4 -> "4"
      [] n = 5 -> "5" [] n = 6 -> "6" [] n = 7 -> "7" [] n = 8 -> "8" [] OTHER -> "9"

VersionString(v) ==
    << Digit(v.maj), ".", Digit(v.min), ".", Digit(v.pat) >>
        \o (IF v.pre = "" THEN << >> ELSE << "-", v.pre >>)

RECURSIVE ComparatorsString(_)
ComparatorsString(cs) ==
    IF cs = << >> THEN << >>
    ELSE << cs[1].op >> \o VersionString(cs[1].ver)
         \o (IF Len(cs) > 1 THEN << "," >> ELSE << >>)
         \o ComparatorsString(Tail(cs))

ConstraintString(c) ==
    CASE c.kind = "empty" -> << >>
      [] c.kind = "invalid" -> << "not", "-", "a", "-", "version" >>
      [] c.kind = "range" -> VersionString(c.lo) \o << " ", "-", " " >> \o VersionString(c.hi)
      [] OTHER -> ComparatorsString(c.cmps)

\* strings.Contains(constraint, "-")
ContainsHyphen(c) == \E i \in DOMAIN ConstraintString(c) : ConstraintString(c)[i] = "-"

\* semver.NewConstraint: the comparators of a constraint, or an error.
\* A range "lo - hi" is rewritten to ">= lo, <= hi".
NewConstraint(c) ==
    CASE c.kind = "invalid" -> [ok |-> FALSE, cmps |-> << >>]
      [] c.kind = "range" ->
            [ok |-> TRUE, cmps |-> << [op |-> ">=", ver |-> c.lo], [op |-> "<=", ver |-> c.hi] >>]
      [] OTHER -> [ok |-> TRUE, cmps |-> c.cmps]

\* Constraints.Check: every comparator of the conjunction holds.
Check(cmps, v) == \A i \in DOMAIN cmps : CheckComparator(cmps[i], v)

(***************************************************************************)
(* internal/bun: the resolver.                                             *)
(***************************************************************************)
NoVersion == Ver(0, 0, 0, "none")

\* The loop of Resolve: the first version of the list that satisfies the
\* constraint, in list order.
FirstMatchFromEnd(cmps, versions) ==
    LET hits == {i \in DOMAIN versions : Check(cmps, versions[i])}
    IN IF hits = {} THEN 0 ELSE CHOOSE i \in hits : \A j \in hits : j <= i

FirstMatch(cmps, versions) ==
    LET hits == {i \in DOMAIN versions : Check(cmps, versions[i])}
    IN IF hits = {} THEN 0 ELSE CHOOSE i \in hits : \A j \in hits : i <= j

\* Resolver.Resolve on the outcome of source.GetVersions().
Resolve(source, constraint) ==
    IF source.err THEN [ok |-> FALSE, err |-> "source", version |-> NoVersion]
    ELSE IF Len(source.versions) = 0
    THEN [ok |-> FALSE, err |-> "no versions available", version |-> NoVersion]
    ELSE IF constraint.kind = "empty"
    THEN [ok |-> TRUE, err |-> "", version |-> source.versions[1]]
    ELSE LET c == NewConstraint(constraint)
             i == FirstMatch(c.cmps, source.versions)
         IN IF ~c.ok
            THEN [ok |-> FALSE, err |-> "invalid version constraint", version |-> NoVersion]
            ELSE IF i # 0
            THEN [ok |-> TRUE, err |-> "", version |-> source.versions[i]]
            ELSE [ok |-> FALSE, err |-> "ErrNoMatchingVersion", version |-> NoVersion]

(***************************************************************************)
(* The state.                                                              *)
(***************************************************************************)
VARIABLES
    host,       \* the machine: [goos, tools], tools being the commands on PATH
    deps,       \* the cache: deps/<key>/node_modules of every key
    runs,       \* invocations of runScript completed so far
    pc,         \* where the current invocation is
    opts,       \* its flags and script: the RunOptions
    sb,         \* the sandbox backend runScript selected
    source,     \* what the version source returned
    steps,      \* the pipeline steps started so far, in order
    failed,     \* the step that failed, "" if none
    depsDir,    \* the deps/<key> directory handed to the backend, "" if none
    proxy,      \* the proxy.Manager of this invocation and its listeners
    child,      \* the interpreter subprocess
    clock,      \* seconds since the backend started the subprocess
    result,     \* what runScript got back from Run
    hashIn,     \* HashPackages: the two package lists under comparison
    hashOut,    \* HashPackages: their keys, and the lists after the calls
    resIn,      \* Resolve: the version source's list and the constraint
    resOut,     \* Resolve: its result
    filter,     \* the DomainFilter shared by the proxies
    req,        \* the client request being handled
    reply,      \* the reply sent for it
    dials,      \* every upstream connection the proxies opened
    handled,    \* client requests handled so far
    idxFiles,   \* the index cache: bun-versions.json and fetched_at
    now,        \* the wall clock, in hours
    idxOut,     \* Index.GetVersions: what the last call did and returned
    binCache,   \* the interpreter cache: what is at <cache>/bun/<v>/bun
    binOut,     \* Downloader.GetBinary: what the last call did and returned
    mgr,        \* a proxy.Manager whose Stop is called repeatedly
    callIn,     \* the arguments of a function applied on its own
    callOut,    \* its result
    fs,         \* the cache directory: root, bun/, deps/, index/
    fsOut,      \* cache.Cache: the last operation and what it returned
    conn,       \* one client connection of a proxy, its handler and its tunnel
    srv,        \* the proxies of a manager, their handlers, and Stop's progress
    bridge,     \* the shell running the socat bridge command in the namespace
    race,       \* two invocations of Run that share one cache root
    temp        \* Run on a script from standard input: its temporary file and its defers

runVars == << host, deps, runs, pc, opts, sb, source, steps, failed, depsDir,
              proxy, child, clock, result >>
hashVars == << hashIn, hashOut >>
resVars == << resIn, resOut >>
proxyVars == << filter, req, reply, dials, handled >>
indexVars == << idxFiles, now, idxOut >>
binVars == << binCache, binOut >>
mgrVars == << mgr >>
callVars == << callIn, callOut >>
cacheVars == << fs, fsOut >>
connVars == << conn >>
srvVars == << srv >>
bridgeVars == << bridge >>
raceVars == << race >>
tempVars == << temp >>
laterVars == << cacheVars, connVars, srvVars, bridgeVars, raceVars, tempVars >>
vars == << runVars, hashVars, resVars, proxyVars, indexVars, binVars, mgrVars, callVars,
          laterVars >>

(***************************************************************************)
(* Inputs.                                                                 *)
(***************************************************************************)
\* The machines: linux with any of bwrap, nsjail, unshare; darwin with or
\* without sandbox-exec; and a platform with no backend at all.
Hosts ==
    {[goos |-> "linux", tools |-> t] : t \in SUBSET {"bwrap", "nsjail", "unshare"}}
        \cup {[goos |-> "darwin", tools |-> t] : t \in SUBSET {"sandbox-exec"}}
        \cup {[goos |-> "windows", tools |-> {}]}

HostAB == << "a", ".", "b" >>
HostXAB == << "x", ".", "a", ".", "b" >>
HostEvil == << "e", ".", "v" >>

PkgA == << "a" >>
PkgB == << "b" >>
PkgUpperB == << "B" >>

\* The merged package lists of the runs.
RunPackageLists == {<< >>, << PkgA >>, << PkgB, PkgA >>}

V100 == Ver(1, 0, 0, "")
V110 == Ver(1, 1, 0, "")
V200 == Ver(2, 0, 0, "")
V200rc == Ver(2, 0, 0, "rc")

EmptyConstraint == [kind |-> "empty"]
Comparator(op, v) == [op |-> op, ver |-> v]
And(cs) == [kind |-> "and", cmps |-> cs]

\* What the version index can return to a run.
RunSources ==
    { [err |-> TRUE, versions |-> << >>],
      [err |-> FALSE, versions |-> << V110, V100 >>] }

RunConstraints == {EmptyConstraint, And(<< Comparator(">=", V200) >>)}

RunOptionSets ==
    [ sandbox : BOOLEAN, offline : BOOLEAN, allowHosts : {<< >>, << HostAB >>},
      packages : RunPackageLists, constraint : RunConstraints,
      timeout : {0, MaxTimeout} ]

NoOptions ==
    [ sandbox |-> FALSE, offline |-> FALSE, allowHosts |-> << >>, packages |-> << >>,
      constraint |-> EmptyConstraint, timeout |-> 0 ]

DepKeys == {HashPackages(p) : p \in RunPackageLists \ {<< >>}}

NoSource == [err |-> TRUE, versions |-> << >>]
NoProxy == [started |-> FALSE, http |-> FALSE, socks5 |-> FALSE, socket |-> FALSE,
            socketFile |-> FALSE, stops |-> 0, filter |-> NewDomainFilter]
NoChild == [state |-> "none", net |-> "none", deadline |-> FALSE, nodePath |-> FALSE,
            code |-> 0, via |-> "none"]
NoResult == [code |-> 0, err |-> "", returned |-> FALSE]

(***************************************************************************)
(* internal/sandbox: backend detection and what each backend does to the   *)
(* interpreter's network.                                                  *)
(***************************************************************************)
commandExists(h, name) == name \in h.tools

Available(h, backend) ==
    CASE backend = "macos" -> h.goos = "darwin" /\ commandExists(h, "sandbox-exec")
      [] backend = "macos-network" -> h.goos = "darwin" /\ commandExists(h, "sandbox-exec")
      [] backend = "bubblewrap" -> commandExists(h, "bwrap")
      [] backend = "nsjail" -> commandExists(h, "nsjail")
      [] backend = "linux-network" -> commandExists(h, "unshare")
      [] OTHER -> TRUE

\* detectFullSandbox that tries nsjail before bubblewrap.
detectFullSandboxNsjailFirst(h) ==
    IF h.goos = "darwin" /\ Available(h, "macos") THEN "macos"
    ELSE IF h.goos = "linux" /\ Available(h, "nsjail") THEN "nsjail"
    ELSE IF h.goos = "linux" /\ Available(h, "bubblewrap") THEN "bubblewrap"
    ELSE "none"

detectFullSandbox(h) ==
    IF h.goos = "darwin" /\ Available(h, "macos") THEN "macos"
    ELSE IF h.goos = "linux" /\ Available(h, "bubblewrap") THEN "bubblewrap"
    ELSE IF h.goos = "linux" /\ Available(h, "nsjail") THEN "nsjail"
    ELSE "none"

detectNetworkSandbox(h) ==
    IF h.goos = "darwin" /\ Available(h, "macos-network") THEN "macos-network"
    ELSE IF h.goos = "linux" /\ Available(h, "linux-network") THEN "linux-network"
    ELSE "none"

Detect(h, fullSandbox) ==
    IF fullSandbox THEN detectFullSandbox(h) ELSE detectNetworkSandbox(h)

IsSandboxed(backend) == backend # "none"

\* The network the interpreter gets from each backend's Execute, from the
\* sandbox.Config: "direct" (the host's network, unfiltered), "isolated" (a
\* network namespace or profile with nothing reachable), "bridged" (a new
\* network namespace whose only way out is the socat bridge to the proxy
\* socket) or "proxy-only" (Seatbelt: outbound to the proxy ports only).
LinuxNetworkNet(cfg) ==
    IF ~cfg.Network THEN "isolated"
    ELSE IF cfg.ProxySocketPath THEN "bridged"
    ELSE "direct"

BubblewrapNet(cfg) ==
    IF cfg.Network /\ cfg.ProxySocketPath THEN "bridged" ELSE "isolated"

\* --disable_clone_newnet keeps the jail in the host's network namespace and
\* the command is the bare interpreter; nsjail clones a network namespace
\* unless told otherwise.
NsjailNet(cfg) ==
    IF ~cfg.Network THEN "isolated"
    ELSE IF cfg.ProxySocketPath THEN "direct"
    ELSE "isolated"

MacOSNet(cfg) == IF cfg.Network THEN "proxy-only" ELSE "isolated"

MacOSNetworkNet(cfg) ==
    IF cfg.Network /\ cfg.ProxyPort THEN "proxy-only" ELSE "isolated"

BackendNet(backend, cfg) ==
    CASE backend = "linux-network" -> LinuxNetworkNet(cfg)
      [] backend = "bubblewrap" -> BubblewrapNet(cfg)
      [] backend = "nsjail" -> NsjailNet(cfg)
      [] backend = "macos" -> MacOSNet(cfg)
      [] backend = "macos-network" -> MacOSNetworkNet(cfg)
      [] OTHER -> "direct"

(***************************************************************************)
(* internal/proxy: the manager.                                            *)
(***************************************************************************)
\* The filter NewManager builds: allow-all for an empty list.
RECURSIVE AddAll(_, _)
AddAll(f, hosts) ==
    IF hosts = << >> THEN f ELSE AddAll(AddAllowed(f, hosts[1]), Tail(hosts))

\* NewManager that takes a list without a non-blank entry for an empty one.
ManagerFilterBlankIsEmpty(allowedHosts) ==
    IF \A i \in DOMAIN allowedHosts : TrimSpace(allowedHosts[i]) = << >>
    THEN AllowAll(NewDomainFilter)
    ELSE AddAll(NewDomainFilter, allowedHosts)

ManagerFilter(allowedHosts) ==
    IF Len(allowedHosts) = 0 THEN AllowAll(NewDomainFilter)
    ELSE AddAll(NewDomainFilter, allowedHosts)

\* NewManager: the HTTP listener must come up; the SOCKS5 listener and, on
\* linux, the Unix socket listener are best effort.
NewManager(allowedHosts, goos, httpOK, socksOK, socketOK) ==
    IF ~httpOK THEN [ok |-> FALSE, mgr |-> NoProxy]
    ELSE [ok |-> TRUE,
          mgr |-> [started |-> TRUE, http |-> TRUE, socks5 |-> socksOK,
                   socket |-> (goos = "linux" /\ socketOK),
                   socketFile |-> (goos = "linux" /\ socketOK),
                   stops |-> 0, filter |-> ManagerFilter(allowedHosts)]]

\* Manager.Stop: stops whatever listener is there and removes the socket file.
ManagerStop(m) ==
    [m EXCEPT !.http = FALSE, !.socks5 = FALSE, !.socket = FALSE,
              !.socketFile = FALSE, !.stops = m.stops + 1]

(***************************************************************************)
(* internal/cache: the hit test.                                           *)
(***************************************************************************)
\* IsDepsHit without the check that node_modules has entries.
IsDepsHitWhenPresent(d, key) == d[key] # "absent"

\* deps/<key>/node_modules is "absent", "empty", "partial" (entries left by
\* an installer that failed) or "populated" (left by one that exited zero).
IsDepsHit(d, key) == d[key] \in {"partial", "populated"}

(***************************************************************************)
(* internal/cli and internal/exec: runScript and Runner.Run.               *)
(***************************************************************************)
\* DetermineSandbox without the IsSandboxed check of the network-only branch.
DetermineSandboxUnchecked(o, h) ==
    IF o.sandbox
    THEN [sb |-> Detect(h, TRUE), err |-> ~IsSandboxed(Detect(h, TRUE))]
    ELSE IF o.offline \/ Len(o.allowHosts) > 0
    THEN [sb |-> Detect(h, FALSE), err |-> FALSE]
    ELSE [sb |-> "none", err |-> FALSE]

\* runScript, "Determine sandbox": the backend, or the refusal to run.
DetermineSandbox(o, h) ==
    IF o.sandbox
    THEN [sb |-> Detect(h, TRUE), err |-> ~IsSandboxed(Detect(h, TRUE))]
    ELSE IF o.offline \/ Len(o.allowHosts) > 0
    THEN [sb |-> Detect(h, FALSE), err |-> ~IsSandboxed(Detect(h, FALSE))]
    ELSE [sb |-> "none", err |-> FALSE]

\* network := !offline
Network(o) == ~o.offline

\* OnError with the error ignored: the pipeline goes on.
OnErrorIgnored(ok, next) == next

\* if err != nil { return 1, ... }: the next position after a step.
OnError(ok, next) == IF ok THEN next ELSE "done"

\* Run's choice after the dependencies: execScriptSandboxed (which starts
\* the proxy first when needsProxy) or execScript.
needsProxy(backend, o) == IsSandboxed(backend) /\ Network(o)

ExecEntry(backend, o) == IF needsProxy(backend, o) THEN "proxy" ELSE "spawn"

\* The sandbox.Config execScriptSandboxed assembles, as far as the network
\* and the environment go.
SandboxConfig(o, m, dir) ==
    [ Network |-> Network(o), ProxySocketPath |-> m.socket, ProxyPort |-> m.http,
      ProxySOCKS5Port |-> m.socks5, NodeModules |-> (dir # ""), Timeout |-> o.timeout ]

\* The Stop that was not deferred: nothing is stopped on return.
NoDeferredStop(m) == m

\* The deferred proxyMgr.Stop() of execScriptSandboxed: it runs on every
\* return after the manager was started.
DeferredStop(m) == IF m.started THEN ManagerStop(m) ELSE m

\* Whether the subprocess is bound to a context with a deadline:
\* execScriptSandboxed derives one from TimeoutSecs, execScript uses
\* exec.Command with no context.
HasDeadline(backend, o) == IsSandboxed(backend) /\ o.timeout > 0

\* The error cmd.Run returns once the subprocess is gone: nil for exit
\* code 0, an *exec.ExitError carrying the code otherwise (-1 for a process
\* ended by a signal).
WaitError(c) ==
    IF c.state = "exited" /\ c.code = 0 THEN [kind |-> "nil", code |-> 0]
    ELSE [kind |-> "ExitError", code |-> c.code]

\* execScript, after cmd.Run.
execScriptReturn(err) ==
    CASE err.kind = "nil" -> [code |-> 0, err |-> ""]
      [] err.kind = "ExitError" -> [code |-> err.code, err |-> ""]
      [] OTHER -> [code |-> 1, err |-> "exec"]

\* BuildResult that reports success whatever cmd.Run returned.
BuildResultSuccess(err) == [ExitCode |-> 0, err |-> FALSE]

\* sandbox.BuildResult: the exit code of an ExitError, any other error
\* passed on.
BuildResult(err) ==
    CASE err.kind = "ExitError" -> [ExitCode |-> err.code, err |-> FALSE]
      [] err.kind = "nil" -> [ExitCode |-> 0, err |-> FALSE]
      [] OTHER -> [ExitCode |-> 0, err |-> TRUE]

\* execScriptSandboxed, after sb.Execute.
execScriptSandboxedReturn(err) ==
    IF BuildResult(err).err THEN [code |-> 1, err |-> "exec"]
    ELSE [code |-> BuildResult(err).ExitCode, err |-> ""]

\* What Run returns for a subprocess that ended.
RunReturn(backend, err) ==
    IF IsSandboxed(backend) THEN execScriptSandboxedReturn(err) ELSE execScriptReturn(err)

\* The exit status of the launcher: 1 when runScript returned an error
\* (main), os.Exit(exitCode) for a non-zero code, 0 otherwise.
LauncherExit(r) == IF r.err # "" THEN 1 ELSE r.code % 256

(***************************************************************************)
(* The run pipeline, one action per step of runScript and Runner.Run.      *)
(***************************************************************************)
\* The clock stops one second past the largest timeout.
ClockCap == MaxTimeout + 1

RunIdle ==
    /\ pc = "idle" /\ opts = NoOptions /\ sb = "none" /\ source = NoSource
    /\ steps = << >> /\ failed = "" /\ depsDir = "" /\ proxy = NoProxy
    /\ child = NoChild /\ clock = 0 /\ result = NoResult

StayHash == UNCHANGED hashVars
StayRes == UNCHANGED resVars
StayProxy == UNCHANGED proxyVars
StayIndex == UNCHANGED indexVars
StayBin == UNCHANGED binVars
StayMgr == UNCHANGED mgrVars
StayCall == UNCHANGED callVars
StayLater == UNCHANGED laterVars
OthersStay ==
    StayHash /\ StayRes /\ StayProxy /\ StayIndex /\ StayBin /\ StayMgr /\ StayCall /\ StayLater

\* Run returns (1, err) from step `step`.
Fail(step) ==
    /\ failed' = step
    /\ result' = [code |-> 1, err |-> step, returned |-> TRUE]

\* runScript: the flags are parsed.
ParseFlags(o) ==
    /\ pc = "idle" /\ runs < MaxRuns
    /\ opts' = o
    /\ pc' = "detect"
    /\ UNCHANGED << host, deps, runs, sb, source, steps, failed, depsDir, proxy, child,
                    clock, result >>
    /\ OthersStay

\* runScript: the backend is chosen, or the run is refused.
ChooseSandbox ==
    /\ pc = "detect"
    /\ LET d == DetermineSandbox(opts, host)
       IN /\ sb' = d.sb
          /\ pc' = OnError(~d.err, "read")
          /\ IF d.err
             THEN result' = [code |-> 1, err |-> "no sandbox available", returned |-> TRUE]
             ELSE UNCHANGED result
    /\ UNCHANGED << host, deps, runs, opts, source, steps, failed, depsDir, proxy, child, clock >>
    /\ OthersStay

\* A step of Run that either succeeds or makes Run return 1.
PlainStep(at, step, ok, next) ==
    /\ pc = at
    /\ steps' = Append(steps, step)
    /\ pc' = OnError(ok, next)
    /\ IF ok THEN UNCHANGED << failed, result >> ELSE Fail(step)

\* Run: the script is read (from the file, or from stdin into a temp file).
ReadScript(ok) ==
    /\ PlainStep("read", "read", ok, "parse")
    /\ UNCHANGED << host, deps, runs, opts, sb, source, depsDir, proxy, child, clock >>
    /\ OthersStay

\* Run: metadata.Parse.
ParseMetadata(ok) ==
    /\ PlainStep("parse", "parse", ok, "versions")
    /\ UNCHANGED << host, deps, runs, opts, sb, source, depsDir, proxy, child, clock >>
    /\ OthersStay

\* Resolve, first half: source.GetVersions().
GetVersions(src) ==
    /\ PlainStep("versions", "versions", ~src.err, "resolve")
    /\ source' = src
    /\ UNCHANGED << host, deps, runs, opts, sb, depsDir, proxy, child, clock >>
    /\ OthersStay

\* Resolve, second half: the constraint against the list.
ResolveVersion ==
    /\ PlainStep("resolve", "resolve", Resolve(source, opts.constraint).ok, "download")
    /\ UNCHANGED << host, deps, runs, opts, sb, source, depsDir, proxy, child, clock >>
    /\ OthersStay

\* Run: downloader.GetBinary.
GetBinary(ok) ==
    /\ PlainStep("download", "download", ok, "deps")
    /\ UNCHANGED << host, deps, runs, opts, sb, source, depsDir, proxy, child, clock >>
    /\ OthersStay

\* What installDeps can leave in deps/<key>/node_modules: exit zero leaves it
\* populated; a failure leaves what was there, an empty directory or part
\* of the tree.
InstallOutcomes(before) ==
    {[ok |-> TRUE, state |-> "populated"]}
        \cup {[ok |-> FALSE, state |-> st] : st \in {before, "empty", "partial"}}

\* Run, "Handle dependencies": nothing to do, a cache hit, or installDeps.
HandleDeps(out) ==
    /\ pc = "deps"
    /\ IF Len(opts.packages) = 0
       THEN /\ out = [ok |-> TRUE, state |-> "populated"]
            /\ pc' = ExecEntry(sb, opts)
            /\ UNCHANGED << deps, depsDir, steps, failed, result >>
       ELSE LET hash == HashPackages(opts.packages)
            IN /\ depsDir' = hash
               /\ IF IsDepsHit(deps, hash)
                  THEN /\ out = [ok |-> TRUE, state |-> "populated"]
                       /\ pc' = ExecEntry(sb, opts)
                       /\ UNCHANGED << deps, steps, failed, result >>
                  ELSE /\ out \in InstallOutcomes(deps[hash])
                       /\ deps' = [deps EXCEPT ![hash] = out.state]
                       /\ steps' = Append(steps, "install")
                       /\ pc' = OnError(out.ok, ExecEntry(sb, opts))
                       /\ IF out.ok THEN UNCHANGED << failed, result >> ELSE Fail("install")
    /\ UNCHANGED << host, runs, opts, sb, source, proxy, child, clock >>
    /\ OthersStay

\* execScriptSandboxed: proxy.NewManager.
StartProxy(httpOK, socksOK, socketOK) ==
    /\ pc = "proxy"
    /\ LET m == NewManager(opts.allowHosts, host.goos, httpOK, socksOK, socketOK)
       IN /\ proxy' = m.mgr
          /\ steps' = Append(steps, "proxy")
          /\ pc' = OnError(m.ok, "spawn")
          /\ IF m.ok THEN UNCHANGED << failed, result >> ELSE Fail("proxy")
    /\ UNCHANGED << host, deps, runs, opts, sb, source, depsDir, child, clock >>
    /\ OthersStay

\* sb.Execute (sandboxed) or execScript (not sandboxed) starts the
\* interpreter, or fails before it runs; a failure returns through the
\* deferred Stop.
SpawnBackend(ok) ==
    /\ pc = "spawn"
    /\ steps' = Append(steps, "exec")
    /\ IF ok
       THEN /\ child' = [state |-> "running",
                         net |-> BackendNet(sb, SandboxConfig(opts, proxy, depsDir)),
                         deadline |-> HasDeadline(sb, opts),
                         nodePath |-> (depsDir # ""),
                         code |-> 0,
                         via |-> IF IsSandboxed(sb) THEN "Execute" ELSE "execScript"]
            /\ pc' = "running"
            /\ UNCHANGED << failed, result, proxy >>
       ELSE /\ Fail("exec")
            /\ proxy' = DeferredStop(proxy)
            /\ pc' = "done"
            /\ UNCHANGED child
    /\ clock' = 0
    /\ UNCHANGED << host, deps, runs, opts, sb, source, depsDir >>
    /\ OthersStay

\* A second passes while the interpreter runs. A subprocess bound to a
\* deadline does not outlive it: exec.CommandContext kills it then.
Tick ==
    /\ pc = "running" /\ child.state = "running"
    /\ clock < ClockCap
    /\ ~(child.deadline /\ clock >= opts.timeout)
    /\ clock' = clock + 1
    /\ UNCHANGED << host, deps, runs, pc, opts, sb, source, steps, failed, depsDir, proxy,
                    child, result >>
    /\ OthersStay

\* The interpreter exits by itself.
ChildExit(code) ==
    /\ pc = "running" /\ child.state = "running"
    /\ child' = [child EXCEPT !.state = "exited", !.code = code]
    /\ UNCHANGED << host, deps, runs, pc, opts, sb, source, steps, failed, depsDir, proxy,
                    clock, result >>
    /\ OthersStay

\* The context's deadline passes: the subprocess is killed and cmd.Run
\* reaps it (its ExitCode is -1).
KillOnDeadline ==
    /\ pc = "running" /\ child.state = "running"
    /\ child.deadline /\ clock >= opts.timeout
    /\ child' = [child EXCEPT !.state = "killed", !.code = -1]
    /\ UNCHANGED << host, deps, runs, pc, opts, sb, source, steps, failed, depsDir, proxy,
                    clock, result >>
    /\ OthersStay

\* cmd.Run returned: the exit code is the result, the deferred Stop runs,
\* Run returns.
ReturnFromExec ==
    /\ pc = "running" /\ child.state \in {"exited", "killed"}
    /\ result' = [code |-> RunReturn(sb, WaitError(child)).code,
                  err |-> RunReturn(sb, WaitError(child)).err, returned |-> TRUE]
    /\ proxy' = DeferredStop(proxy)
    /\ pc' = "done"
    /\ UNCHANGED << host, deps, runs, opts, sb, source, steps, failed, depsDir, child, clock >>
    /\ OthersStay

\* The process ends; the next invocation finds the cache as this one left it.
FinishRun ==
    /\ pc = "done"
    /\ runs' = runs + 1
    /\ pc' = "idle" /\ opts' = NoOptions /\ sb' = "none" /\ source' = NoSource
    /\ steps' = << >> /\ failed' = "" /\ depsDir' = "" /\ proxy' = NoProxy
    /\ child' = NoChild /\ clock' = 0 /\ result' = NoResult
    /\ UNCHANGED << host, deps >>
    /\ OthersStay

HashIdle == hashIn = << << >>, << >> >> /\ hashOut = << >>
ResIdle == resIn = [source |-> NoSource, constraint |-> EmptyConstraint] /\ resOut = << >>
ProxyIdle ==
    /\ filter = NewDomainFilter /\ req = << >> /\ reply = << >> /\ dials = {} /\ handled = 0

\* The index cache before anything was fetched.
NoIndexFiles ==
    [versions |-> [state |-> "absent", body |-> << >>],
     stamp |-> [state |-> "absent", at |-> 0]]

IndexIdle == idxFiles = NoIndexFiles /\ now = 0 /\ idxOut = << >>
BinIdle == binCache = << >> /\ binOut = << >>
MgrIdle == mgr = << >>
CallIdle == callIn = << >> /\ callOut = << >>
CacheIdle == fs = << >> /\ fsOut = << >>
ConnIdle == conn = << >>
SrvIdle == srv = << >>
BridgeIdle == bridge = << >>
RaceIdle == race = << >>
TempIdle == temp = << >>
LaterIdle == CacheIdle /\ ConnIdle /\ SrvIdle /\ BridgeIdle /\ RaceIdle /\ TempIdle

InitRun ==
    /\ host \in Hosts
    /\ deps = [k \in DepKeys |-> "absent"]
    /\ runs = 0
    /\ RunIdle
    /\ HashIdle /\ ResIdle /\ ProxyIdle
    /\ IndexIdle /\ BinIdle /\ MgrIdle /\ CallIdle /\ LaterIdle

NextRun ==
    \/ \E o \in RunOptionSets : ParseFlags(o)
    \/ ChooseSandbox
    \/ \E ok \in BOOLEAN : ReadScript(ok)
    \/ \E ok \in BOOLEAN : ParseMetadata(ok)
    \/ \E src \in RunSources : GetVersions(src)
    \/ ResolveVersion
    \/ \E ok \in BOOLEAN : GetBinary(ok)
    \/ \E out \in InstallOutcomes("absent") \cup InstallOutcomes("empty") : HandleDeps(out)
    \/ \E h, s, u \in BOOLEAN : StartProxy(h, s, u)
    \/ \E ok \in BOOLEAN : SpawnBackend(ok)
    \/ Tick
    \/ \E code \in {0, 3} : ChildExit(code)
    \/ KillOnDeadline
    \/ ReturnFromExec
    \/ FinishRun

SpecRun == InitRun /\ [][NextRun]_vars

(***************************************************************************)
(* Claims about the run pipeline.                                          *)
(***************************************************************************)
\* --sandbox, --offline or a non-empty --allow-host list was given.
Requested(o) == o.sandbox \/ o.offline \/ Len(o.allowHosts) > 0

Range(q) == {q[i] : i \in DOMAIN q}

\* C2: whenever a run has a non-empty --allow-host list and network enabled,
\* the interpreter is never run with direct, unfiltered network access, on
\* any path through the selected backend's Execute (the path with an empty
\* ProxySocketPath included): it runs confined to the proxy or not at all.
C2_AllowHostRunsConfined ==
    (Len(opts.allowHosts) > 0 /\ Network(opts) /\ child.state # "none")
        => child.net # "direct"

\* C3: when --sandbox, --offline or a non-empty --allow-host list is given
\* and Detect returns the None backend, runScript returns an error and Run is
\* never reached; the interpreter runs under the None backend only when none
\* of the three options was given.
C3_RefusesWithoutSandbox ==
    /\ (pc \notin {"idle", "detect"} /\ Requested(opts) /\ Detect(host, opts.sandbox) = "none")
          => /\ pc = "done" /\ steps = << >> /\ child.state = "none"
             /\ result.returned /\ result.code = 1 /\ result.err = "no sandbox available"
    /\ (steps # << >> /\ sb = "none") => ~Requested(opts)
    /\ (child.state # "none" /\ child.via = "execScript") => ~Requested(opts)

C3_Witness ==
    /\ pc = "done" /\ ~opts.sandbox /\ Len(opts.allowHosts) > 0
    /\ Detect(host, FALSE) = "none" /\ result.returned /\ result.err = "no sandbox available"

\* C4: for every run with a wall-clock timeout T > 0, whichever backend is
\* selected, an interpreter that has not exited T seconds after the backend
\* started it is killed: it is never still running after T.
C4_TimeoutKillsEveryBackend ==
    (opts.timeout > 0 /\ clock > opts.timeout) => child.state # "running"

\* C5: once Run has started a proxy manager, Stop runs before Run returns on
\* every exit path (success, non-zero exit, backend error, timeout) and
\* never while the subprocess is running; when Run has returned no listener
\* is open and the socket file is gone.
C5_ProxyStoppedOnReturn ==
    /\ (proxy.started /\ proxy.stops > 0) => child.state # "running"
    /\ (proxy.started /\ pc \in {"spawn", "running"}) => (proxy.stops = 0 /\ proxy.http)
    /\ (proxy.started /\ pc = "done")
          => /\ proxy.stops = 1
             /\ ~proxy.http /\ ~proxy.socks5 /\ ~proxy.socket /\ ~proxy.socketFile

C5_Witness ==
    /\ pc = "done" /\ proxy.started /\ child.state = "killed" /\ proxy.stops = 1
    /\ host.goos = "linux"

\* C6: the steps of a run happen in the order read, parse, version list,
\* resolve, download, install (when needed), proxy (when needed), execute,
\* each only after every earlier one succeeded; the backend never executes
\* after a failed step and the proxies never start before the installation
\* has finished.
StepRank(st) ==
    CASE st = "read" -> 1 [] st = "parse" -> 2 [] st = "versions" -> 3
      [] st = "resolve" -> 4 [] st = "download" -> 5 [] st = "install" -> 6
      [] st = "proxy" -> 7 [] st = "exec" -> 8 [] OTHER -> 0

MandatorySteps == {"read", "parse", "versions", "resolve", "download"}

C6_StepsInOrder ==
    /\ \A i, j \in DOMAIN steps : i < j => StepRank(steps[i]) < StepRank(steps[j])
    /\ \A i \in DOMAIN steps : \A m \in MandatorySteps :
          StepRank(m) < StepRank(steps[i]) => \E j \in 1..(i - 1) : steps[j] = m
    /\ failed # "" => (pc = "done" /\ steps # << >> /\ steps[Len(steps)] = failed)
    /\ child.state # "none" => failed = ""
    /\ (("exec" \in Range(steps) \/ "proxy" \in Range(steps)) /\ Len(opts.packages) > 0)
          => /\ depsDir = HashPackages(opts.packages)
             /\ deps[depsDir] \in {"partial", "populated"}
    /\ ("exec" \in Range(steps) /\ needsProxy(sb, opts)) => "proxy" \in Range(steps)
    /\ proxy.started => "proxy" \in Range(steps)

C6_Witness ==
    /\ pc = "running"
    /\ steps = << "read", "parse", "versions", "resolve", "download", "install", "proxy", "exec" >>

\* C14: when the interpreter process exits with code n, Run returns n and
\* no error on the unsandboxed and on the sandboxed path, and the launcher
\* exits with n; every launcher failure before or instead of execution
\* returns 1 together with an error.
C14_ExitCodePropagated ==
    /\ (result.returned /\ child.state = "exited")
          => /\ result.code = child.code /\ result.err = ""
             /\ LauncherExit(result) = child.code
    /\ (result.returned /\ child.state = "none")
          => result.code = 1 /\ result.err # "" /\ LauncherExit(result) = 1

C14_Witness ==
    /\ pc = "done" /\ child.state = "exited" /\ child.code = 3 /\ child.via = "Execute"
    /\ result.returned /\ result.code = 3

\* C7: Run invokes the installer exactly when the merged package list is
\* non-empty and deps/<key>/node_modules is missing or empty; a populated
\* tree stays populated, a later run with the same list skips the installer
\* and gets the same deps/<key>; an empty list never installs and never
\* sets NODE_PATH.
C7_Step ==
    /\ (pc = "deps" /\ pc' # "deps")
          => LET invoked == steps' # steps
             IN IF Len(opts.packages) = 0
                THEN ~invoked /\ depsDir' = "" /\ deps' = deps
                ELSE LET key == HashPackages(opts.packages)
                     IN /\ invoked <=> deps[key] \in {"absent", "empty"}
                        /\ depsDir' = key
                        /\ ~invoked => deps' = deps
    /\ \A k \in DepKeys : deps[k] = "populated" => deps'[k] = "populated"
    /\ (child'.state # "none") => (child'.nodePath <=> Len(opts'.packages) > 0)

C7_InstallerIffMiss == [][C7_Step]_vars

C7_Witness ==
    /\ runs > 0 /\ pc \in {"proxy", "spawn"} /\ Len(opts.packages) > 0
    /\ "install" \notin Range(steps)
    /\ depsDir = HashPackages(opts.packages) /\ deps[depsDir] = "populated"

\* C27: IsDepsHit(key) is true only if some earlier installer run for that
\* key exited zero: after an installer run that fails, whatever it left in
\* deps/<key>, the key is still a miss, so the next Run with that package
\* list invokes the installer again and never executes the script against a
\* partially installed tree.
C27_HitOnlyAfterInstallerSucceeded ==
    /\ \A k \in DepKeys : IsDepsHit(deps, k) => deps[k] = "populated"
    /\ (child.state # "none" /\ depsDir # "") => deps[depsDir] = "populated"

(***************************************************************************)
(* The cache key on its own: HashPackages applied to two package lists.    *)
(***************************************************************************)
\* The machine and cache of a behaviour in which no script is run.
RunAtRest ==
    /\ host = [goos |-> "linux", tools |-> {}]
    /\ deps = [k \in DepKeys |-> "absent"]
    /\ runs = 0
    /\ RunIdle

StayRun == UNCHANGED runVars

\* Package specs as they appear in metadata and on the command line.
PkgAt1 == << "a", "@", "1" >>
HashPackageNames == {PkgA, PkgB, PkgUpperB, PkgAt1}

\* A call of HashPackages: the key it returns and the caller's slice after
\* the call (the function sorts and lowercases a copy).
CallHashPackages(packages) ==
    LET sorted == packages
    IN [key |-> HashPackages(sorted), packages |-> packages]

\* Both lists are hashed.
HashBoth ==
    /\ hashOut = << >>
    /\ hashOut' = << CallHashPackages(hashIn[1]), CallHashPackages(hashIn[2]) >>
    /\ UNCHANGED hashIn
    /\ StayRun /\ StayRes /\ StayProxy
    /\ StayIndex /\ StayBin /\ StayMgr /\ StayCall /\ StayLater

InitHash ==
    /\ hashIn \in SeqUpTo(HashPackageNames, MaxPkgs) \X SeqUpTo(HashPackageNames, MaxPkgs)
    /\ hashOut = << >>
    /\ RunAtRest /\ ResIdle /\ ProxyIdle
    /\ IndexIdle /\ BinIdle /\ MgrIdle /\ CallIdle /\ LaterIdle

NextHash == HashBoth

SpecHash == InitHash /\ [][NextHash]_vars

\* The number of elements of list l equal to x after lowercasing.
CountLower(l, x) == Cardinality({i \in DOMAIN l : ToLower(l[i]) = x})

\* Equal as multisets after lowercasing each element.
SameLoweredMultiset(p, q) ==
    /\ Len(p) = Len(q)
    /\ \A i \in DOMAIN p : CountLower(p, ToLower(p[i])) = CountLower(q, ToLower(p[i]))

\* C8: HashPackages returns the same key for every permutation and every
\* letter-case variant of a package list, whatever its length: two lists
\* that are equal as multisets after lowercasing each element get the same
\* key, and the input list is left as it was.
C8_KeyIgnoresOrderAndCase ==
    hashOut # << >> =>
        /\ SameLoweredMultiset(hashIn[1], hashIn[2]) => hashOut[1].key = hashOut[2].key
        /\ hashOut[1].packages = hashIn[1] /\ hashOut[2].packages = hashIn[2]

(***************************************************************************)
(* The resolver on its own: Resolve on a version source and a constraint.  *)
(***************************************************************************)
\* The versions a source may list; one of them is a prerelease.
ResolveVersions == {V100, V110, V200, V200rc}

\* What source.GetVersions() returns: an error, or a list in the order the
\* source holds it (the index sorts what it fetches; a cached list and any
\* other VersionSource come as they are).
ResolveSources ==
    {[err |-> TRUE, versions |-> << >>]}
        \cup {[err |-> FALSE, versions |-> l] : l \in SeqUpTo(ResolveVersions, MaxVersions)}

\* The constraint strings: "", one the library rejects, comparators with
\* and without a prerelease, a conjunction and a hyphen range.
ResolveConstraints ==
    { EmptyConstraint,
      [kind |-> "invalid"],
      And(<< Comparator(">=", V100) >>),
      And(<< Comparator("^", V100) >>),
      And(<< Comparator("<", V100) >>),
      And(<< Comparator(">=", V110), Comparator("<", V200) >>),
      And(<< Comparator(">=", V200rc) >>),
      [kind |-> "range", lo |-> V100, hi |-> V110] }

\* resolver.Resolve(constraint) is called.
CallResolve ==
    /\ resOut = << >>
    /\ resOut' = << Resolve(resIn.source, resIn.constraint) >>
    /\ UNCHANGED resIn
    /\ StayRun /\ StayHash /\ StayProxy
    /\ StayIndex /\ StayBin /\ StayMgr /\ StayCall /\ StayLater

InitResolve ==
    /\ resIn \in [source : ResolveSources, constraint : ResolveConstraints]
    /\ resOut = << >>
    /\ RunAtRest /\ HashIdle /\ ProxyIdle
    /\ IndexIdle /\ BinIdle /\ MgrIdle /\ CallIdle /\ LaterIdle

NextResolve == CallResolve

SpecResolve == InitResolve /\ [][NextResolve]_vars

\* The list is in descending order.
SortedDescending(versions) ==
    \A i, j \in DOMAIN versions : i < j => Compare(versions[i], versions[j]) >= 0

\* The constraint is "" or one semver.NewConstraint accepts.
Accepted(c) == c.kind = "empty" \/ NewConstraint(c).ok

\* The positions of the list whose version satisfies the constraint.
Satisfying(c, versions) ==
    {i \in DOMAIN versions : Check(NewConstraint(c).cmps, versions[i])}

\* C9: for every non-empty version list sorted descending and every
\* constraint the semver library accepts, Resolve returns the highest
\* version of the list that satisfies the constraint, or ErrNoMatchingVersion
\* when none does; with the empty constraint it returns the first element.
C9_ResolveReturnsHighest ==
    LET vs == resIn.source.versions
        c == resIn.constraint
    IN (/\ resOut # << >> /\ ~resIn.source.err /\ Len(vs) > 0
        /\ SortedDescending(vs) /\ Accepted(c))
          => IF c.kind = "empty"
             THEN resOut[1].ok /\ resOut[1].version = vs[1]
             ELSE IF Satisfying(c, vs) = {}
             THEN ~resOut[1].ok /\ resOut[1].err = "ErrNoMatchingVersion"
             ELSE /\ resOut[1].ok
                  /\ \E i \in Satisfying(c, vs) : resOut[1].version = vs[i]
                  /\ \A i \in Satisfying(c, vs) : Compare(resOut[1].version, vs[i]) >= 0

C9_Witness ==
    /\ resOut # << >> /\ resOut[1].ok /\ resOut[1].version = V110
    /\ resIn.source.versions = << V200, V110 >>
    /\ resIn.constraint = And(<< Comparator(">=", V110), Comparator("<", V200) >>)

\* C10: Resolve never returns a version with a prerelease field unless the
\* constraint string contains a hyphen, whatever list the source supplies
\* and whatever the constraint, the empty one included.
C10_NoPrereleaseWithoutHyphen ==
    (resOut # << >> /\ resOut[1].ok /\ resOut[1].version.pre # "")
        => ContainsHyphen(resIn.constraint)

(***************************************************************************)
(* The proxies on their own: the HTTP proxy (TCP and Unix socket           *)
(* listeners share one handler) and the SOCKS5 proxy, one filter for all.  *)
(***************************************************************************)
socks5Version == 5
authNone == 0
cmdConnect == 1
atypIPv4 == 1
atypDomain == 3
repSuccess == 0
repNotAllowed == 2
repHostUnreach == 4
repCmdNotSupported == 7
repAddrNotSupp == 8
StatusOK == 200
StatusForbidden == 403
StatusBadGateway == 502

HostABPort == << "a", ".", "b", ":", "8" >>
HostUpperAB == << "A", ".", "B" >>
HostWildAB == << "*", ".", "a", ".", "b" >>
HostIP == << "1", ".", "1" >>

\* The hosts clients ask for, and the --allow-host lists of the managers.
RequestHosts == {HostAB, HostABPort, HostUpperAB, HostXAB, HostEvil}
ProxyAllowLists == {<< >>, << HostAB >>, << HostWildAB >>}

\* A reply that no handler has sent.
NoReply == [code |-> -1, dialed |-> FALSE]

\* The filter said no: if !p.filter.IsAllowed(host), with the check left out.
NeverDenied(f, h) == FALSE

\* if !p.filter.IsAllowed(host) { ...; return }
Denied(f, h) == ~IsAllowed(f, h)

\* r.Host as the handlers find it: net/http's server takes it from the
\* request target when that is absolute (or an authority, for CONNECT)
\* and from the Host header otherwise.
ServerRequestHost(r) == IF r.urlHost # << >> THEN r.urlHost ELSE r.header

\* handleConnect: filter r.Host, then dial it (port 443 unless it names one).
handleConnect(f, r) ==
    LET h == ServerRequestHost(r)
        target == IF CountOf(h, ":") = 0 THEN h \o << ":", "4", "4", "3" >> ELSE h
    IN IF Denied(f, h)
       THEN [reply |-> [code |-> StatusForbidden, dialed |-> FALSE], dial |-> {}]
       ELSE [reply |-> [code |-> IF r.dialOK THEN StatusOK ELSE StatusBadGateway,
                        dialed |-> TRUE],
             dial |-> {[via |-> "connect", host |-> h, target |-> target]}]

\* handleHTTP: filter r.Host (r.URL.Host when that is empty), then send the
\* request to r.URL; a URL without a host makes client.Do fail before any dial.
handleHTTP(f, r) ==
    LET h == IF ServerRequestHost(r) = << >> THEN r.urlHost ELSE ServerRequestHost(r)
    IN IF Denied(f, h)
       THEN [reply |-> [code |-> StatusForbidden, dialed |-> FALSE], dial |-> {}]
       ELSE IF r.urlHost = << >>
       THEN [reply |-> [code |-> StatusBadGateway, dialed |-> FALSE], dial |-> {}]
       ELSE [reply |-> [code |-> IF r.dialOK THEN StatusOK ELSE StatusBadGateway,
                        dialed |-> TRUE],
             dial |-> {[via |-> "http", host |-> r.urlHost, target |-> r.urlHost]}]

\* handleRequest
handleRequest(f, r) ==
    IF r.method = "CONNECT" THEN handleConnect(f, r) ELSE handleHTTP(f, r)

\* readAddress: the host as text, or an error for an unknown address type.
readAddress(r) ==
    IF r.atyp \in {atypIPv4, atypDomain}
    THEN [ok |-> TRUE, host |-> r.addr, port |-> r.port]
    ELSE [ok |-> FALSE, host |-> << >>, port |-> << >>]

\* net.JoinHostPort
JoinHostPort(h, port) ==
    IF CountOf(h, ":") > 0 THEN << "[" >> \o h \o << "]", ":" >> \o port
    ELSE h \o << ":" >> \o port

\* handleConnection: greeting, method selection, request, filter, dial.
\* A reply code of -1 is a connection closed with no reply and 255 is "no
\* acceptable methods".
handleConnection(f, r) ==
    LET a == readAddress(r)
    IN IF r.ver # socks5Version THEN [reply |-> NoReply, dial |-> {}]
       ELSE IF ~r.noAuth THEN [reply |-> [code |-> 255, dialed |-> FALSE], dial |-> {}]
       ELSE IF r.cmd # cmdConnect
       THEN [reply |-> [code |-> repCmdNotSupported, dialed |-> FALSE], dial |-> {}]
       ELSE IF ~a.ok
       THEN [reply |-> [code |-> repAddrNotSupp, dialed |-> FALSE], dial |-> {}]
       ELSE IF Denied(f, a.host)
       THEN [reply |-> [code |-> repNotAllowed, dialed |-> FALSE], dial |-> {}]
       ELSE [reply |-> [code |-> IF r.dialOK THEN repSuccess ELSE repHostUnreach,
                        dialed |-> TRUE],
             dial |-> {[via |-> "socks5", host |-> a.host,
                        target |-> JoinHostPort(a.host, a.port)]}]

\* The requests clients send to the HTTP proxy, on either listener.
HTTPRequests ==
    [ proto : {"http"}, listener : {"tcp", "unix"}, method : {"GET", "CONNECT"},
      urlHost : RequestHosts \cup {<< >>}, header : {HostAB, HostEvil}, dialOK : BOOLEAN ]

\* The requests clients send to the SOCKS5 proxy.
SOCKS5Requests ==
    { r \in [ proto : {"socks5"}, ver : {4, socks5Version}, noAuth : BOOLEAN,
              cmd : {cmdConnect, 2}, atyp : {atypIPv4, atypDomain, 9},
              addr : RequestHosts \cup {HostIP, << >>}, port : {<< "8" >>},
              dialOK : BOOLEAN ] :
        /\ r.atyp = atypIPv4 => r.addr = HostIP
        /\ r.atyp = atypDomain => r.addr \in RequestHosts
        /\ r.atyp = 9 => r.addr = << >> }

\* One request served by a handler, start to finish.
Serve(r, out) ==
    /\ handled < MaxRequests
    /\ req' = r
    /\ reply' = out.reply
    /\ dials' = dials \cup out.dial
    /\ handled' = handled + 1
    /\ UNCHANGED filter
    /\ StayRun /\ StayHash /\ StayRes
    /\ StayIndex /\ StayBin /\ StayMgr /\ StayCall /\ StayLater

\* The HTTP proxy serves a request.
ServeHTTP(r) == Serve(r, handleRequest(filter, r))

\* The SOCKS5 proxy serves a connection.
ServeSOCKS5(r) == Serve(r, handleConnection(filter, r))

InitProxy ==
    /\ filter \in {ManagerFilter(l) : l \in ProxyAllowLists}
    /\ req = << >> /\ reply = << >> /\ dials = {} /\ handled = 0
    /\ RunAtRest /\ HashIdle /\ ResIdle
    /\ IndexIdle /\ BinIdle /\ MgrIdle /\ CallIdle /\ LaterIdle

NextProxy ==
    \/ \E r \in HTTPRequests : ServeHTTP(r)
    \/ \E r \in SOCKS5Requests : ServeSOCKS5(r)

SpecProxy == InitProxy /\ [][NextProxy]_vars

\* The host a request asks the proxy to reach, if it gets as far as asking.
AskedHost(r) ==
    IF r.proto = "http" THEN (IF r.urlHost # << >> THEN r.urlHost ELSE r.header)
    ELSE r.addr

\* The request names a host: every HTTP request does, a SOCKS5 request does
\* once it is a well-formed CONNECT.
AsksForHost(r) ==
    r.proto = "socks5" =>
        /\ r.ver = socks5Version /\ r.noAuth /\ r.cmd = cmdConnect
        /\ r.atyp \in {atypIPv4, atypDomain}

CacheTTL == 24

MaxHours == 26       \* the wall clock stops here
MaxIndexCalls == 2   \* calls of GetVersions in one behaviour

\* semver.NewVersion on the text of a version; Version.Original gives the
\* text back.
NewVersion(text) ==
    IF \E v \in {V100, V110, V200, V200rc} : VersionString(v) = text
    THEN [ok |-> TRUE, v |-> CHOOSE v \in {V100, V110, V200, V200rc} : VersionString(v) = text]
    ELSE [ok |-> FALSE, v |-> NoVersion]

Original(v) == VersionString(v)

\* The versions of a list of texts, the unparsable ones skipped.
RECURSIVE ParseAll(_)
ParseAll(texts) ==
    IF texts = << >> THEN << >>
    ELSE (IF NewVersion(texts[1]).ok THEN << NewVersion(texts[1]).v >> ELSE << >>)
         \o ParseAll(Tail(texts))

\* loadCachedVersions: ErrNoCache when the file cannot be read, an error
\* when it is not a JSON list of strings.
loadCachedVersions(files) ==
    IF files.versions.state # "ok" THEN [ok |-> FALSE, versions |-> << >>]
    ELSE [ok |-> TRUE, versions |-> ParseAll(files.versions.body)]

\* isCacheStale with >= in place of >.
isCacheStaleAtTTL(files, t) ==
    IF files.stamp.state # "ok" THEN TRUE
    ELSE t - files.stamp.at >= CacheTTL

\* isCacheStale: no readable timestamp, or time.Since(t) > CacheTTL.
isCacheStale(files, t) ==
    IF files.stamp.state # "ok" THEN TRUE
    ELSE t - files.stamp.at > CacheTTL

\* versionRegex ^bun-v(\d+\.\d+\.\d+)$ on a tag given as tokens.
IsDigit(ch) == ch \in {"0", "1", "2", "3", "4", "5", "6", "7", "8", "9"}

TagMatches(tag) ==
    /\ Len(tag) = 6 /\ tag[1] = "bun-v"
    /\ IsDigit(tag[2]) /\ tag[3] = "." /\ IsDigit(tag[4]) /\ tag[5] = "." /\ IsDigit(tag[6])

\* Insert v into a list in descending order.
RECURSIVE InsertDescending(_, _)
InsertDescending(v, l) ==
    IF l = << >> THEN << v >>
    ELSE IF Compare(v, l[1]) = 1 THEN << v >> \o l
    ELSE << l[1] >> \o InsertDescending(v, Tail(l))

\* sort.Slice left out: the list as it came.
KeepOrder(l) == l

RECURSIVE SortDescending(_)
SortDescending(l) ==
    IF l = << >> THEN << >>
    ELSE InsertDescending(l[1], SortDescending(Tail(l)))

\* The releases fetchVersions keeps: no draft, no prerelease, a tag the
\* regex matches and a version that parses.
RECURSIVE KeptReleases(_)
KeptReleases(releases) ==
    IF releases = << >> THEN << >>
    ELSE LET r == releases[1]
             keep == /\ ~r.draft /\ ~r.prerelease /\ TagMatches(r.tag)
                     /\ NewVersion(SubSeq(r.tag, 2, Len(r.tag))).ok
         IN (IF keep THEN << NewVersion(SubSeq(r.tag, 2, Len(r.tag))).v >> ELSE << >>)
            \o KeptReleases(Tail(releases))

\* fetchVersions on what the release feed answered.
fetchVersions(feed) ==
    IF ~feed.ok THEN [ok |-> FALSE, versions |-> << >>]
    ELSE [ok |-> TRUE, versions |-> SortDescending(KeptReleases(feed.releases))]

\* cacheVersions: the list first, then the timestamp; either write can fail
\* and what was written before it stays. A write of the list that fails
\* after the file was truncated ("torn") leaves a file that is not JSON.
cacheVersions(files, versions, t, written) ==
    LET body == [i \in DOMAIN versions |-> Original(versions[i])]
    IN CASE written = "both" ->
                [versions |-> [state |-> "ok", body |-> body],
                 stamp |-> [state |-> "ok", at |-> t]]
         [] written = "list" ->
                [files EXCEPT !.versions = [state |-> "ok", body |-> body]]
         [] written = "torn" ->
                [files EXCEPT !.versions = [state |-> "corrupt", body |-> << >>]]
         [] OTHER -> files

\* GetVersions when the fetch failed, with the fallback left out.
FetchFailedNoFallback(cached) == [ok |-> FALSE, versions |-> << >>]

\* GetVersions when the fetch failed: the cached list if it loads.
FetchFailed(cached) ==
    IF cached.ok THEN [ok |-> TRUE, versions |-> cached.versions]
    ELSE [ok |-> FALSE, versions |-> << >>]

\* Index.GetVersions: what it returns, whether it fetched, the files after.
IndexGetVersions(files, t, feed, written) ==
    LET cached == loadCachedVersions(files)
        fetched == fetchVersions(feed)
    IN IF cached.ok /\ ~isCacheStale(files, t)
       THEN [ok |-> TRUE, versions |-> cached.versions, fetched |-> FALSE,
             fetchOK |-> FALSE, files |-> files]
       ELSE IF ~fetched.ok
       THEN [ok |-> FetchFailed(loadCachedVersions(files)).ok,
             versions |-> FetchFailed(loadCachedVersions(files)).versions,
             fetched |-> TRUE, fetchOK |-> FALSE, files |-> files]
       ELSE [ok |-> TRUE, versions |-> fetched.versions, fetched |-> TRUE,
             fetchOK |-> TRUE,
             files |-> cacheVersions(files, fetched.versions, t, written)]

\* A release of the feed.
Release(v, prerelease, draft) ==
    [tag |-> << "bun-v" >> \o VersionString(v), prerelease |-> prerelease, draft |-> draft]

\* What the release feed can answer.
Feeds ==
    { [ok |-> FALSE, releases |-> << >>],
      [ok |-> TRUE, releases |-> << Release(V100, FALSE, FALSE), Release(V110, FALSE, FALSE) >>],
      [ok |-> TRUE, releases |-> << Release(V200, TRUE, FALSE), Release(V200rc, FALSE, FALSE),
                                    Release(V110, FALSE, TRUE), Release(V100, FALSE, FALSE) >>] }

\* The cache directory a behaviour starts with.
InitialIndexFiles ==
    { NoIndexFiles,
      [versions |-> [state |-> "ok", body |-> << Original(V200), << "x" >>, Original(V100) >>],
       stamp |-> [state |-> "ok", at |-> 0]],
      [versions |-> [state |-> "ok", body |-> << Original(V200) >>],
       stamp |-> [state |-> "absent", at |-> 0]],
      [versions |-> [state |-> "ok", body |-> << Original(V200) >>],
       stamp |-> [state |-> "corrupt", at |-> 0]],
      [versions |-> [state |-> "corrupt", body |-> << >>],
       stamp |-> [state |-> "ok", at |-> 0]] }

NoIndexCall ==
    [calls |-> 0, ok |-> FALSE, versions |-> << >>, fetched |-> FALSE, fetchOK |-> FALSE]

StayOutsideIndex ==
    StayRun /\ StayHash /\ StayRes /\ StayProxy /\ StayBin /\ StayMgr /\ StayCall /\ StayLater

\* index.GetVersions() is called.
CallGetVersions(feed, written) ==
    /\ idxOut.calls < MaxIndexCalls
    /\ LET r == IndexGetVersions(idxFiles, now, feed, written)
       IN /\ idxOut' = [calls |-> idxOut.calls + 1, ok |-> r.ok, versions |-> r.versions,
                        fetched |-> r.fetched, fetchOK |-> r.fetchOK]
          /\ idxFiles' = r.files
    /\ UNCHANGED now
    /\ StayOutsideIndex

\* Time passes.
Advance(d) ==
    /\ now + d <= MaxHours
    /\ now' = now + d
    /\ UNCHANGED << idxFiles, idxOut >>
    /\ StayOutsideIndex

InitIndex ==
    /\ idxFiles \in InitialIndexFiles
    /\ now = 0
    /\ idxOut = NoIndexCall
    /\ RunAtRest /\ HashIdle /\ ResIdle /\ ProxyIdle /\ BinIdle /\ MgrIdle /\ CallIdle /\ LaterIdle

NextIndex ==
    \/ \E feed \in Feeds, written \in {"none", "list", "torn", "both"} : CallGetVersions(feed, written)
    \/ \E d \in {1, CacheTTL} : Advance(d)

SpecIndex == InitIndex /\ [][NextIndex]_vars

\* A call of GetVersions happens in this step.
IndexCalled == idxOut'.calls = idxOut.calls + 1

\* The cached list loads; its timestamp reads and is at most 24 hours old.
ListLoads == idxFiles.versions.state = "ok"
StampFresh == idxFiles.stamp.state = "ok" /\ now - idxFiles.stamp.at <= CacheTTL

\* C11: GetVersions fetches the release feed if and only if the cached list
\* does not load or fetched_at is missing, unparsable or more than 24 hours
\* old; a list that loads with an age of at most 24 hours (24 included) is
\* returned with no fetch and nothing written, so after a fetch that was
\* persisted no fetch happens for the next 24 hours.
C11_Step ==
    IndexCalled =>
        /\ idxOut'.fetched <=> ~(ListLoads /\ StampFresh)
        /\ (ListLoads /\ StampFresh)
              => /\ idxOut'.ok
                 /\ idxOut'.versions = ParseAll(idxFiles.versions.body)
                 /\ idxFiles' = idxFiles

C11_FetchIffStale == [][C11_Step]_vars

C11_Witness ==
    /\ idxOut.calls = 2 /\ ~idxOut.fetched /\ idxOut.ok
    /\ idxFiles.stamp.state = "ok" /\ idxFiles.stamp.at > 0
    /\ now - idxFiles.stamp.at = CacheTTL

\* C12: when the fetch fails GetVersions returns the cached list, however
\* stale, whenever one loads, and an error only when none loads; a failed
\* fetch leaves the cached list and its timestamp as they were.
C12_Step ==
    (IndexCalled /\ idxOut'.fetched /\ ~idxOut'.fetchOK) =>
        /\ idxFiles' = idxFiles
        /\ idxOut'.ok <=> ListLoads
        /\ ListLoads => idxOut'.versions = ParseAll(idxFiles.versions.body)

C12_FetchFailureFallsBack == [][C12_Step]_vars

C12_Witness ==
    /\ idxOut.calls = 2 /\ idxOut.fetched /\ ~idxOut.fetchOK /\ idxOut.ok
    /\ idxFiles.stamp.state = "ok" /\ now - idxFiles.stamp.at > CacheTTL
    /\ idxOut.versions = << V110, V100 >>

(***************************************************************************)
(* internal/bun: the downloader and the interpreter cache.                 *)
(***************************************************************************)
MaxBinCalls == 3     \* calls of GetBinary in one behaviour

\* The versions GetBinary is asked for.
BinVersions == {V100, V110, V200}

\* binaryPath: <cache>/bun/<version>/bun
binaryPath(v) == << "bun", Original(v), "bun" >>

\* What is at <cache>/bun/<version>: nothing ("absent"), the directory
\* without the binary ("dir"), a binary cut short ("partial") or the whole
\* binary ("complete").
EmptyBinCache == [v \in BinVersions |-> "absent"]

\* os.Stat(binPath) that never finds the file.
NeverCached(cache, v) == FALSE

\* os.Stat(binPath) succeeds: GetBinary's test, and IsCached.
IsCached(cache, v) == cache[v] \in {"partial", "complete"}

\* The ways download and extract can end, in the order of their steps.
DownloadOutcomes ==
    {"no-temp-file", "get-error", "not-200", "body-error", "bad-archive",
     "mkdir-error", "open-error", "entry-error", "copy-error", "ok"}

\* download: the temp file is outside the cache; http.Get is the one
\* network request; extract creates <version>/ and then writes the binary.
download(cache, v, outcome) ==
    [ ok |-> outcome = "ok",
      requested |-> outcome # "no-temp-file",
      cache |->
        CASE outcome = "ok" -> [cache EXCEPT ![v] = "complete"]
          [] outcome \in {"entry-error", "copy-error"} -> [cache EXCEPT ![v] = "partial"]
          [] outcome = "open-error" ->
                [cache EXCEPT ![v] = IF @ = "absent" THEN "dir" ELSE @]
          [] OTHER -> cache ]

\* Downloader.GetBinary
DownloaderGetBinary(cache, v, outcome) ==
    IF IsCached(cache, v)
    THEN [ok |-> TRUE, path |-> binaryPath(v), requested |-> FALSE, cache |-> cache]
    ELSE LET d == download(cache, v, outcome)
         IN [ok |-> d.ok, path |-> IF d.ok THEN binaryPath(v) ELSE << >>,
             requested |-> d.requested, cache |-> d.cache]

NoBinCall == [calls |-> 0, v |-> NoVersion, ok |-> FALSE, path |-> << >>, requested |-> FALSE]

StayOutsideBin ==
    StayRun /\ StayHash /\ StayRes /\ StayProxy /\ StayIndex /\ StayMgr /\ StayCall /\ StayLater

\* downloader.GetBinary(v) is called.
CallGetBinary(v, outcome) ==
    /\ binOut.calls < MaxBinCalls
    /\ LET r == DownloaderGetBinary(binCache, v, outcome)
       IN /\ binOut' = [calls |-> binOut.calls + 1, v |-> v, ok |-> r.ok, path |-> r.path,
                        requested |-> r.requested]
          /\ binCache' = r.cache
    /\ StayOutsideBin

InitBin ==
    /\ binCache = EmptyBinCache
    /\ binOut = NoBinCall
    /\ RunAtRest /\ HashIdle /\ ResIdle /\ ProxyIdle /\ IndexIdle /\ MgrIdle /\ CallIdle /\ LaterIdle

NextBin == \E v \in BinVersions, outcome \in DownloadOutcomes : CallGetBinary(v, outcome)

SpecBin == InitBin /\ [][NextBin]_vars

\* C13: when the binary of version v is already at <cache>/bun/<v>/bun,
\* GetBinary(v) returns that path, makes no network request and creates,
\* changes or deletes nothing in the cache.
C13_Step ==
    (binOut'.calls = binOut.calls + 1 /\ binCache[binOut'.v] \in {"partial", "complete"})
        => /\ binOut'.ok /\ binOut'.path = binaryPath(binOut'.v)
           /\ ~binOut'.requested
           /\ binCache' = binCache

C13_CachedBinaryIsReused == [][C13_Step]_vars

C13_Witness ==
    /\ binOut.calls = 2 /\ binOut.ok /\ ~binOut.requested
    /\ binCache[binOut.v] = "complete" /\ binOut.path = binaryPath(binOut.v)

\* C26: GetBinary returns a path only to a binary that was completely
\* extracted: when a download or extraction fails part-way, no file is left
\* at <cache>/bun/<v>/bun, so a later GetBinary(v) downloads again instead of
\* returning a partial file as a cache hit.
C26_OnlyCompleteBinaries ==
    /\ \A v \in BinVersions : binCache[v] # "partial"
    /\ (binOut.calls > 0 /\ binOut.ok) => binCache[binOut.v] = "complete"

(***************************************************************************)
(* internal/proxy: a manager whose Stop is called more than once.          *)
(***************************************************************************)
MaxStops == 3        \* calls of Manager.Stop in one behaviour

\* A started manager with what Stop looks at: its listeners (m), which of
\* its three proxies are set, the SOCKS5 proxy's quit channel, and whether
\* a call of Stop panicked.
StartedManager(m, goos) ==
    [ m |-> m, goos |-> goos,
      socketProxy |-> m.socket, socks5Proxy |-> m.socks5, httpProxy |-> m.http,
      quit |-> "open", panicked |-> FALSE, calls |-> 0 ]

\* HTTPProxy.Stop: server.Shutdown and wg.Wait; both may be repeated.
HTTPProxyStop(listening) == FALSE

\* SOCKS5Proxy.Stop: close(p.quit), then the listener is closed. Closing a
\* channel that is already closed panics.
SOCKS5ProxyStop(quit) ==
    IF quit = "closed" THEN [panic |-> TRUE, quit |-> "closed"]
    ELSE [panic |-> FALSE, quit |-> "closed"]

\* Manager.Stop on a manager whose fields Stop never resets: the socket
\* proxy and its file first, then the SOCKS5 proxy, then the HTTP proxy; a
\* panic ends the call where it happens.
ManagerStopCall(g) ==
    LET afterSocket ==
            IF g.socketProxy
            THEN [g.m EXCEPT !.socket = HTTPProxyStop(@), !.socketFile = FALSE]
            ELSE g.m
        s5 == SOCKS5ProxyStop(g.quit)
    IN IF g.socks5Proxy /\ s5.panic
       THEN [g EXCEPT !.m = afterSocket, !.panicked = TRUE, !.calls = @ + 1]
       ELSE [g EXCEPT !.m = ManagerStop(g.m),
                      !.quit = IF g.socks5Proxy THEN s5.quit ELSE @,
                      !.calls = @ + 1]

StayOutsideMgr ==
    StayRun /\ StayHash /\ StayRes /\ StayProxy /\ StayIndex /\ StayBin /\ StayCall /\ StayLater

\* m.Stop() is called; a process that panicked calls nothing more.
CallStop ==
    /\ mgr.calls < MaxStops /\ ~mgr.panicked
    /\ mgr' = ManagerStopCall(mgr)
    /\ StayOutsideMgr

\* The --allow-host lists of the managers that are stopped.
MgrAllowLists ==
    ProxyAllowLists \cup {<< HostEvil >>, << HostAB, HostWildAB >>, << HostAB, HostEvil >>}

InitMgr ==
    /\ \E l \in MgrAllowLists, goos \in {"linux", "darwin", "windows"},
          socksOK \in BOOLEAN, socketOK \in BOOLEAN :
            mgr = StartedManager(NewManager(l, goos, TRUE, socksOK, socketOK).mgr, goos)
    /\ RunAtRest /\ HashIdle /\ ResIdle /\ ProxyIdle /\ IndexIdle /\ BinIdle /\ CallIdle /\ LaterIdle

NextMgr == CallStop

SpecMgr == InitMgr /\ [][NextMgr]_vars

\* C15: Stop may be called any number of times on a started manager: the
\* first call closes the HTTP, SOCKS5 and Unix socket listeners and removes
\* the socket file, and every later call completes without error or panic
\* and changes nothing.
C15_StopIsIdempotent ==
    /\ ~mgr.panicked
    /\ mgr.calls >= 1 =>
          ~mgr.m.http /\ ~mgr.m.socks5 /\ ~mgr.m.socket /\ ~mgr.m.socketFile

(***************************************************************************)
(* Functions applied on their own: callIn holds the function's name and    *)
(* its arguments, callOut its result once it has been applied.             *)
(***************************************************************************)
StayOutsideCall ==
    StayRun /\ StayHash /\ StayRes /\ StayProxy /\ StayIndex /\ StayBin /\ StayMgr
        /\ StayLater

OutsideCallIdle ==
    RunAtRest /\ HashIdle /\ ResIdle /\ ProxyIdle /\ IndexIdle /\ BinIdle /\ MgrIdle
        /\ LaterIdle

\* The function named fn is applied and `returned` is what it returns.
Apply(fn, returned) ==
    /\ callIn.fn = fn /\ callOut = << >>
    /\ callOut' = << returned >>
    /\ UNCHANGED callIn
    /\ StayOutsideCall

(***************************************************************************)
(* internal/proxy: the domain filter on its own.                           *)
(***************************************************************************)
HostB == << "b" >>
HostYXAB == << "y", ".", "x", ".", "a", ".", "b" >>
HostXAdotB == << "x", "a", ".", "b" >>
HostABdotX == << "a", ".", "b", ".", "x" >>
HostUpperXAB == << "X", ".", "A", ".", "B" >>
HostIPPort == << "1", ".", "1", ":", "8" >>
HostV6 == << "[", ":", ":", "1", "]" >>
HostV6Port == << "[", ":", ":", "1", "]", ":", "8" >>
HostUpperWildAB == << "*", ".", "A", ".", "B" >>
HostBlank == << " ", " " >>

\* The hosts IsAllowed is asked about.
FilterHosts ==
    { HostAB, HostABPort, HostUpperAB, HostXAB, HostYXAB, HostUpperXAB, HostB, HostXAdotB,
      HostABdotX, HostEvil, HostIP, HostIPPort, HostV6Port }

\* The allow lists the filters are built from (createFilter).
FilterAllowLists ==
    { << >>, << HostAB >>, << HostUpperAB >>, << HostWildAB >>, << HostUpperWildAB >>,
      << HostXAB >>, << HostAB, HostEvil >>, << HostEvil, HostWildAB >>, << HostIP >>,
      << HostV6 >>, << HostBlank, HostAB >>, << HostBlank >>, << << >>, HostBlank >> }

\* f.IsAllowed(host) on the filter built from the list.
CallIsAllowed ==
    Apply("IsAllowed", IsAllowed(ManagerFilter(callIn.allowed), callIn.host))

InitFilter ==
    /\ callIn \in [fn : {"IsAllowed"}, allowed : FilterAllowLists, host : FilterHosts]
    /\ callOut = << >>
    /\ OutsideCallIdle

NextFilter == CallIsAllowed

SpecFilter == InitFilter /\ [][NextFilter]_vars

\* h is some label sequence followed by "." and suffix.
EndsWithDot(h, suffix) ==
    \E k \in 2..Len(h) : h[k] = "." /\ SubSeq(h, k + 1, Len(h)) = suffix

\* The rules of an allow list: its non-blank entries, trimmed, lowercased.
RulesOf(allowed) ==
    {ToLower(TrimSpace(allowed[i])) : i \in {j \in DOMAIN allowed : TrimSpace(allowed[j]) # << >>}}

\* C16: IsAllowed(host), after stripping a :port suffix and IPv6 brackets and
\* comparing without regard to case, is true exactly when the filter allows
\* everything, or an exact rule equals the host, or a rule *.suffix is such
\* that the host ends with .suffix; a wildcard matches subdomains at any
\* depth but never the bare suffix, and an exact rule never matches a
\* subdomain or a parent domain of itself.
C16_IsAllowedMatchesRules ==
    callOut # << >> =>
        LET h == NormalizeHost(callIn.host)
            rules == {NormalizeHost(r) : r \in RulesOf(callIn.allowed)}
        IN /\ callOut[1] <=>
                \/ Len(callIn.allowed) = 0
                \/ \E r \in rules : r[1] # "*" /\ r = h
                \/ \E r \in rules : r[1] = "*" /\ r[2] = "." /\ EndsWithDot(h, SubSeq(r, 3, Len(r)))
           /\ (callIn.allowed = << HostAB >> /\ callIn.host \in {HostAB, HostABPort, HostUpperAB})
                 => callOut[1]
           /\ (callIn.allowed = << HostAB >>
                 /\ callIn.host \in {HostXAB, HostB, HostXAdotB, HostABdotX, HostEvil})
                 => ~callOut[1]
           /\ (callIn.allowed \in {<< HostWildAB >>, << HostUpperWildAB >>}
                 /\ callIn.host \in {HostXAB, HostYXAB, HostUpperXAB})
                 => callOut[1]
           /\ (callIn.allowed = << HostWildAB >>
                 /\ callIn.host \in {HostAB, HostABPort, HostXAdotB, HostB})
                 => ~callOut[1]
           /\ (callIn.allowed = << HostV6 >> /\ callIn.host = HostV6Port) => callOut[1]
           /\ (callIn.allowed = << HostIP >> /\ callIn.host = HostIPPort) => callOut[1]

C16_Witness ==
    /\ callOut # << >> /\ callIn.fn = "IsAllowed"
    /\ callIn.allowed = << HostWildAB >> /\ callIn.host = HostYXAB /\ callOut[1]

(***************************************************************************)
(* internal/sandbox: the environment handed to the interpreter.            *)
(***************************************************************************)
MaxEnv == 2

\* SafeEnvVars
SafeEnvVars ==
    { << "P", "A", "T", "H" >>,
      << "H", "O", "M", "E" >>,
      << "U", "S", "E", "R" >>,
      << "S", "H", "E", "L", "L" >>,
      << "L", "A", "N", "G" >>,
      << "T", "E", "R", "M" >>,
      << "T", "Z" >>,
      << "T", "M", "P", "D", "I", "R" >>,
      << "T", "E", "M", "P" >>,
      << "T", "M", "P" >>,
      << "L", "O", "G", "N", "A", "M", "E" >>,
      << "E", "D", "I", "T", "O", "R" >>,
      << "V", "I", "S", "U", "A", "L" >>,
      << "P", "A", "G", "E", "R" >> }

\* SafeEnvPrefixes
SafeEnvPrefixes == << << "L", "C", "_" >>, << "X", "D", "G", "_" >> >>

\* strings.SplitN(env, "=", 2): one part when env holds no "=", else the
\* text before the first "=" and everything after it.
SplitN2(env) ==
    LET i == IndexOf(env, "=")
    IN IF i = 0 THEN << env >>
       ELSE << SubSeq(env, 1, i - 1), SubSeq(env, i + 1, Len(env)) >>

\* The prefix loop: one append at the first prefix the name starts with.
RECURSIVE PrefixLoop(_, _, _)
PrefixLoop(prefixes, name, env) ==
    IF prefixes = << >> THEN << >>
    ELSE IF HasPrefix(name, Head(prefixes)) THEN << env >>
    ELSE PrefixLoop(Tail(prefixes), name, env)

\* FilterEnv whose first two tests append without leaving the iteration.
RECURSIVE FilterEnvNoContinue(_, _)
FilterEnvNoContinue(environ, allowed) ==
    IF environ = << >> THEN << >>
    ELSE LET env == Head(environ)
             parts == SplitN2(env)
             rest == FilterEnvNoContinue(Tail(environ), allowed)
         IN IF Len(parts) # 2 THEN rest
            ELSE (IF \E i \in DOMAIN allowed : allowed[i] = parts[1] THEN << env >> ELSE << >>)
                 \o (IF parts[1] \in SafeEnvVars THEN << env >> ELSE << >>)
                 \o PrefixLoop(SafeEnvPrefixes, parts[1], env) \o rest

\* FilterEnv(allowed) over os.Environ() = environ.
RECURSIVE FilterEnv(_, _)
FilterEnv(environ, allowed) ==
    IF environ = << >> THEN << >>
    ELSE LET env == Head(environ)
             parts == SplitN2(env)
             rest == FilterEnv(Tail(environ), allowed)
         IN IF Len(parts) # 2 THEN rest
            ELSE IF \E i \in DOMAIN allowed : allowed[i] = parts[1] THEN << env >> \o rest
            ELSE IF parts[1] \in SafeEnvVars THEN << env >> \o rest
            ELSE PrefixLoop(SafeEnvPrefixes, parts[1], env) \o rest

EnvPath == << "P", "A", "T", "H", "=", "/", "b" >>
EnvHome == << "H", "O", "M", "E", "=", "/", "h" >>
EnvKey == << "K", "E", "Y", "=", "s" >>
EnvKeyEq == << "K", "E", "Y", "=", "a", "=", "b" >>
EnvLC == << "L", "C", "_", "A", "L", "L", "=", "C" >>
EnvXDG == << "X", "D", "G", "_", "C", "=", "/", "c" >>
EnvLCA == << "L", "C", "A", "=", "x" >>
EnvPathX == << "P", "A", "T", "H", "X", "=", "1" >>
EnvLowerPath == << "p", "a", "t", "h", "=", "/", "b" >>
EnvTZEmpty == << "T", "Z", "=" >>
EnvNoEquals == << "P", "A", "T", "H" >>

\* The entries the process environment is drawn from.
EnvEntries ==
    { EnvPath, EnvHome, EnvKey, EnvKeyEq, EnvLC, EnvXDG, EnvLCA, EnvPathX, EnvLowerPath, EnvTZEmpty, EnvNoEquals }

\* The --allow-env lists.
AllowEnvLists ==
    { << >>, << << "K", "E", "Y" >> >>, << << "K", "E", "Y" >>, << "P", "A", "T", "H" >> >>, << << "L", "C", "A" >>, << "K", "E", "Y" >> >> }

CallFilterEnv == Apply("FilterEnv", FilterEnv(callIn.environ, callIn.allowed))

InitEnv ==
    /\ callIn \in [fn : {"FilterEnv"}, environ : SeqUpTo(EnvEntries, MaxEnv), allowed : AllowEnvLists]
    /\ callOut = << >>
    /\ OutsideCallIdle

NextEnv == CallFilterEnv

SpecEnv == InitEnv /\ [][NextEnv]_vars

\* How many times entry e occurs in the list l.
Occurrences(l, e) == Cardinality({i \in DOMAIN l : l[i] = e})

\* The name of a NAME=value entry.
EntryName(e) == SubSeq(e, 1, IndexOf(e, "=") - 1)

\* C17: FilterEnv(allowed) returns exactly the entries of the process
\* environment whose name is in allowed, or in the safelist, or starts with
\* LC_ or XDG_; each such entry appears once, its value unchanged, and nothing
\* else appears.
C17_FilterEnvKeepsExactlySafeAndAllowed ==
    callOut # << >> =>
        \A e \in EnvEntries :
            LET qualifies ==
                    /\ IndexOf(e, "=") > 0
                    /\ \/ \E i \in DOMAIN callIn.allowed : callIn.allowed[i] = EntryName(e)
                       \/ EntryName(e) \in SafeEnvVars
                       \/ HasPrefix(EntryName(e), << "L", "C", "_" >>)
                       \/ HasPrefix(EntryName(e), << "X", "D", "G", "_" >>)
            IN Occurrences(callOut[1], e)
                   = IF qualifies THEN Occurrences(callIn.environ, e) ELSE 0

C17_Witness ==
    /\ callOut # << >> /\ callIn.fn = "FilterEnv"
    /\ callIn.environ = << EnvKeyEq, EnvPath >>
    /\ callIn.allowed = << << "K", "E", "Y" >>, << "P", "A", "T", "H" >> >>
    /\ callOut[1] = << EnvKeyEq, EnvPath >>

(***************************************************************************)
(* internal/sandbox: Detect on its own, on every platform and PATH.        *)
(***************************************************************************)
\* runtime.GOOS and the sandbox tools exec.LookPath finds.
DetectHosts ==
    {[goos |-> g, tools |-> t] :
        g \in {"linux", "darwin", "windows"},
        t \in SUBSET {"bwrap", "nsjail", "unshare", "sandbox-exec"}}

\* The Sandbox implementations, by Name().
Backends == {"macos", "macos-network", "bubblewrap", "nsjail", "linux-network", "none"}

CallDetect == Apply("Detect", Detect(callIn.host, callIn.full))

InitDetect ==
    /\ callIn \in [fn : {"Detect"}, host : DetectHosts, full : BOOLEAN]
    /\ callOut = << >>
    /\ OutsideCallIdle

NextDetect == CallDetect

SpecDetect == InitDetect /\ [][NextDetect]_vars

\* C18: Detect(full) returns, on darwin, MacOS (full) or MacOSNetwork
\* (network-only) when sandbox-exec is on PATH; on linux with full,
\* Bubblewrap if bwrap is on PATH, else Nsjail if nsjail is; on linux
\* network-only, LinuxNetwork if unshare is on PATH; None in every other case,
\* other operating systems included.  It never returns nil nor a backend whose
\* Available() is false, and IsSandboxed() is false only for None.
C18_DetectPicksAvailableBackend ==
    callOut # << >> =>
        LET h == callIn.host
            has(t) == t \in h.tools
            expected ==
                IF h.goos = "darwin" /\ has("sandbox-exec")
                THEN (IF callIn.full THEN "macos" ELSE "macos-network")
                ELSE IF h.goos = "linux" /\ callIn.full /\ has("bwrap") THEN "bubblewrap"
                ELSE IF h.goos = "linux" /\ callIn.full /\ has("nsjail") THEN "nsjail"
                ELSE IF h.goos = "linux" /\ ~callIn.full /\ has("unshare") THEN "linux-network"
                ELSE "none"
        IN /\ callOut[1] = expected
           /\ callOut[1] \in Backends
           /\ Available(h, callOut[1])
           /\ (IsSandboxed(callOut[1]) <=> callOut[1] # "none")

C18_Witness ==
    /\ callOut # << >> /\ callIn.fn = "Detect"
    /\ callIn.host = [goos |-> "linux", tools |-> {"nsjail", "unshare", "sandbox-exec"}]
    /\ callIn.full /\ callOut[1] = "nsjail"

(***************************************************************************)
(* internal/metadata: the // buns block of a script.  A script is the      *)
(* sequence of its lines, a line the sequence of its characters; the token *)
(* "X64K" stands for a run of MaxScanTokenSize bytes holding no newline    *)
(* and no space.                                                           *)
(***************************************************************************)
MaxLines == 3

\* bufio.MaxScanTokenSize, the buffer limit of bufio.NewScanner.
MaxScanTokenSize == 65536

RECURSIVE ByteLen(_)
ByteLen(line) ==
    IF line = << >> THEN 0
    ELSE (IF Head(line) = "X64K" THEN MaxScanTokenSize ELSE 1) + ByteLen(Tail(line))

\* scanner.Scan() on the next line: false, with ErrTooLong kept for
\* scanner.Err(), when the buffer fills before the end of the line.
ScanFails(line) == ByteLen(line) >= MaxScanTokenSize

BunsMarker == << "/", "/", " ", "b", "u", "n", "s" >>

\* strings.TrimPrefix(trimmed, "//"), then one leading space dropped.
StripComment(trimmed) ==
    LET content == SubSeq(trimmed, 3, Len(trimmed))
    IN IF HasPrefix(content, << " " >>) THEN Tail(content) ELSE content

\* The scanning loop of Parse from the given line on: the tomlLines
\* collected and the scanner's error.
RECURSIVE ParseLoop(_, _, _)
ParseLoop(lines, inBlock, tomlLines) ==
    IF lines = << >> THEN [tomlLines |-> tomlLines, err |-> ""]
    ELSE IF ScanFails(Head(lines)) THEN [tomlLines |-> tomlLines, err |-> "token too long"]
    ELSE LET trimmed == TrimSpace(Head(lines))
         IN IF ~inBlock
            THEN ParseLoop(Tail(lines), trimmed = BunsMarker, tomlLines)
            ELSE IF HasPrefix(trimmed, << "/", "/" >>)
            THEN ParseLoop(Tail(lines), TRUE, Append(tomlLines, StripComment(trimmed)))
            ELSE [tomlLines |-> tomlLines, err |-> ""]

\* Parse(content): the block handed to the TOML decoder, whether the result
\* is the default Metadata (no decoding), and the error of the scanner.
Parse(lines) ==
    LET r == ParseLoop(lines, FALSE, << >>)
    IN IF r.err # "" THEN [block |-> << >>, default |-> FALSE, err |-> r.err]
       ELSE [block |-> r.tomlLines, default |-> (Len(r.tomlLines) = 0), err |-> ""]

LineMarker == BunsMarker
LineMarkerIndented == << " ", "/", "/", " ", "b", "u", "n", "s", " " >>
LineComment == << "/", "/", " ", "x" >>
LineCommentTight == << " ", "/", "/", "x" >>
LineCommentWide == << "/", "/", " ", " ", "x" >>
LineCode == << "x", " ", "/", "/" >>
LineBlank == << >>
LineLong == << "X64K" >>

\* The lines scripts are made of.
ScriptLines ==
    { LineMarker, LineMarkerIndented, LineComment, LineCommentTight, LineCommentWide,
      LineCode, LineBlank, LineLong }

CallParse == Apply("Parse", Parse(callIn.content))

InitParse ==
    /\ callIn \in [fn : {"Parse"}, content : SeqUpTo(ScriptLines, MaxLines)]
    /\ callOut = << >>
    /\ OutsideCallIdle

NextParse == CallParse

SpecParse == InitParse /\ [][NextParse]_vars

\* Line i of the script is a marker line.
IsMarkerLine(content, i) == TrimSpace(content[i]) = BunsMarker

\* Line i of the script is a comment line.
IsCommentLine(content, i) == HasPrefix(TrimSpace(content[i]), << "/", "/" >>)

\* The block the claim describes: the comment lines that follow the first
\* marker line without interruption, stripped.
ClaimedBlock(content) ==
    IF ~\E i \in DOMAIN content : IsMarkerLine(content, i) THEN << >>
    ELSE LET m == CHOOSE i \in DOMAIN content :
                      IsMarkerLine(content, i) /\ \A j \in 1..(i - 1) : ~IsMarkerLine(content, j)
             n == CHOOSE k \in 0..(Len(content) - m) :
                      /\ \A j \in (m + 1)..(m + k) : IsCommentLine(content, j)
                      /\ (m + k = Len(content) \/ ~IsCommentLine(content, m + k + 1))
         IN [k \in 1..n |-> StripComment(TrimSpace(content[m + k]))]

\* C19: Parse ignores every line before the first line whose trimmed text is
\* exactly "// buns", collects the maximal run of immediately following lines
\* whose trimmed text starts with "//" (stripping "//" and one optional
\* space) and stops at the first other line; nothing after that line affects
\* the result, and a script with no marker or with an empty block yields the
\* default Metadata without error.
C19_ParseReadsFirstBlockOnly ==
    callOut # << >> =>
        /\ callOut[1].err = ""
        /\ callOut[1].block = ClaimedBlock(callIn.content)
        /\ (ClaimedBlock(callIn.content) = << >> => callOut[1].default)

(***************************************************************************)
(* internal/exec: the effective configuration of a run, from the script's  *)
(* metadata and the command line.                                          *)
(***************************************************************************)
MaxMerge == 2

\* "Merge packages" with the command line's entries put first.
MergePackagesCLIFirst(metaPackages, extraPackages) == extraPackages \o metaPackages

\* Run, "Merge packages".
MergePackages(metaPackages, extraPackages) ==
    IF Len(extraPackages) > 0 THEN metaPackages \o extraPackages ELSE metaPackages

\* Run, "Resolve bun version": the constraint handed to resolver.Resolve.
BunConstraint(cliBun, metaBun) == IF cliBun = << >> THEN metaBun ELSE cliBun

\* Run from the parsed metadata to the dependency hash: the merged list, the
\* constraint, and the key computed from the list ("" when there is none).
EffectiveConfig(meta, o) ==
    LET packages == MergePackages(meta.Packages, o.ExtraPackages)
    IN [ packages |-> packages,
         bunConstraint |-> BunConstraint(o.BunConstraint, meta.Bun),
         hash |-> IF Len(packages) > 0 THEN HashPackages(packages) ELSE << >> ]

\* The bun constraints written in scripts and on the command line.
BunTexts == {<< >>, << "^", "1" >>, << "2" >>}

CallEffectiveConfig == Apply("Run", EffectiveConfig(callIn.meta, callIn.opts))

InitMerge ==
    /\ callIn \in
         [ fn : {"Run"},
           meta : [Bun : BunTexts, Packages : SeqUpTo({PkgA, PkgB}, MaxMerge)],
           opts : [BunConstraint : BunTexts, ExtraPackages : SeqUpTo({PkgA, PkgUpperB}, MaxMerge)] ]
    /\ callOut = << >>
    /\ OutsideCallIdle

NextMerge == CallEffectiveConfig

SpecMerge == InitMerge /\ [][NextMerge]_vars

\* C20: the package list of a run is the script's packages in their order
\* followed by the --packages entries in their order, nothing reordered or
\* removed before the cache key is computed; the constraint handed to the
\* resolver is the --bun value when it is non-empty, otherwise the script's
\* value, otherwise the empty string.
C20_EffectiveConfigMergesInOrder ==
    callOut # << >> =>
        LET script == callIn.meta.Packages
            cli == callIn.opts.ExtraPackages
            out == callOut[1]
        IN /\ Len(out.packages) = Len(script) + Len(cli)
           /\ \A i \in DOMAIN script : out.packages[i] = script[i]
           /\ \A i \in DOMAIN cli : out.packages[Len(script) + i] = cli[i]
           /\ out.packages # << >> => out.hash = HashPackages(script \o cli)
           /\ callIn.opts.BunConstraint # << >> => out.bunConstraint = callIn.opts.BunConstraint
           /\ (callIn.opts.BunConstraint = << >> /\ callIn.meta.Bun # << >>)
                 => out.bunConstraint = callIn.meta.Bun
           /\ (callIn.opts.BunConstraint = << >> /\ callIn.meta.Bun = << >>)
                 => out.bunConstraint = << >>

C20_Witness ==
    /\ callOut # << >> /\ callIn.fn = "Run"
    /\ callIn.meta.Packages = << PkgB, PkgA >> /\ callIn.opts.ExtraPackages = << PkgUpperB, PkgA >>
    /\ callIn.meta.Bun = << "2" >> /\ callIn.opts.BunConstraint = << "^", "1" >>
    /\ callOut[1].packages = << PkgB, PkgA, PkgUpperB, PkgA >>
    /\ callOut[1].bunConstraint = << "^", "1" >>

(***************************************************************************)
(* The components below leave everything above alone.                      *)
(***************************************************************************)
StayEarlier ==
    StayRun /\ StayHash /\ StayRes /\ StayProxy /\ StayIndex /\ StayBin /\ StayMgr /\ StayCall

EarlierIdle ==
    RunAtRest /\ HashIdle /\ ResIdle /\ ProxyIdle /\ IndexIdle /\ BinIdle /\ MgrIdle /\ CallIdle

(***************************************************************************)
(* internal/cache: the cache directory and its cleaning and listing.  A    *)
(* subtree is absent or holds entries; nothing exists under an absent      *)
(* root.                                                                   *)
(***************************************************************************)
MaxCleans == 3

CacheKeys == {"k1", "k2"}
CacheBunVersions == {"1.0.0", "2.0.0"}

NoBunDir == [exists |-> FALSE, dirs |-> {}, file |-> FALSE]
NoDepsDir == [exists |-> FALSE, keys |-> [k \in CacheKeys |-> "absent"]]
NoIndexDir == [exists |-> FALSE, file |-> FALSE]

\* A cache directory that does not exist.
NoCacheDir == [root |-> FALSE, bun |-> NoBunDir, deps |-> NoDepsDir, index |-> NoIndexDir]

\* os.Remove in place of os.RemoveAll: an error when the path is missing or
\* is a directory that is not empty.
RemoveStrict(f, path) ==
    CASE path = "bun" ->
           IF f.bun.exists /\ f.bun.dirs = {} /\ ~f.bun.file
           THEN [fs |-> [f EXCEPT !.bun = NoBunDir], err |-> FALSE]
           ELSE [fs |-> f, err |-> TRUE]
      [] path = "deps" ->
           IF f.deps.exists /\ \A k \in CacheKeys : f.deps.keys[k] = "absent"
           THEN [fs |-> [f EXCEPT !.deps = NoDepsDir], err |-> FALSE]
           ELSE [fs |-> f, err |-> TRUE]
      [] path = "index" ->
           IF f.index.exists /\ ~f.index.file
           THEN [fs |-> [f EXCEPT !.index = NoIndexDir], err |-> FALSE]
           ELSE [fs |-> f, err |-> TRUE]
      [] OTHER ->
           IF f.root /\ ~f.bun.exists /\ ~f.deps.exists /\ ~f.index.exists
           THEN [fs |-> NoCacheDir, err |-> FALSE]
           ELSE [fs |-> f, err |-> TRUE]

\* os.RemoveAll(path): the path and everything under it are gone; a missing
\* path is not an error.
RemoveAll(f, path) ==
    CASE path = "bun" -> [fs |-> [f EXCEPT !.bun = NoBunDir], err |-> FALSE]
      [] path = "deps" -> [fs |-> [f EXCEPT !.deps = NoDepsDir], err |-> FALSE]
      [] path = "index" -> [fs |-> [f EXCEPT !.index = NoIndexDir], err |-> FALSE]
      [] OTHER -> [fs |-> NoCacheDir, err |-> FALSE]

CleanBun(f) == RemoveAll(f, "bun")
CleanDeps(f) == RemoveAll(f, "deps")
CleanIndex(f) == RemoveAll(f, "index")
CleanAll(f) == RemoveAll(f, "root")

\* ListBunVersions: the directories of bun/, nothing when bun/ is missing.
ListBunVersions(f) ==
    IF ~f.bun.exists THEN [list |-> {}, err |-> FALSE]
    ELSE [list |-> f.bun.dirs, err |-> FALSE]

\* ListDepsHashes: the directories of deps/, nothing when deps/ is missing.
ListDepsHashes(f) ==
    IF ~f.deps.exists THEN [list |-> {}, err |-> FALSE]
    ELSE [list |-> {k \in CacheKeys : f.deps.keys[k] # "absent"}, err |-> FALSE]

\* EnsureDirs: os.MkdirAll of the three subtrees.
EnsureDirs(f) ==
    [f EXCEPT !.root = TRUE, !.bun.exists = TRUE, !.deps.exists = TRUE, !.index.exists = TRUE]

CleanOps == {"CleanBun", "CleanDeps", "CleanIndex", "CleanAll"}

CleanResult(op, f) ==
    CASE op = "CleanBun" -> CleanBun(f)
      [] op = "CleanDeps" -> CleanDeps(f)
      [] op = "CleanIndex" -> CleanIndex(f)
      [] OTHER -> CleanAll(f)

\* Everything else the cache component does not touch.
StayOutsideCache == StayEarlier /\ UNCHANGED << connVars, srvVars, bridgeVars, raceVars, tempVars >>

\* One of the four cleaning operations is called.
CallClean(op) ==
    /\ fsOut.cleans < MaxCleans
    /\ fs' = CleanResult(op, fs).fs
    /\ fsOut' = [op |-> op, prev |-> fsOut.op, err |-> CleanResult(op, fs).err,
                 cleans |-> fsOut.cleans + 1]
    /\ StayOutsideCache

\* Something else writes to the cache between two calls.
Populated(f) ==
    /\ fs' = f
    /\ fs' # fs
    /\ fsOut' = [fsOut EXCEPT !.op = "write", !.prev = fsOut.op]
    /\ StayOutsideCache

CallEnsureDirs == Populated(EnsureDirs(fs))

\* The downloader extracts a version, or a stray file is written in bun/.
WriteBun ==
    /\ fs.bun.exists
    /\ \/ \E v \in CacheBunVersions : Populated([fs EXCEPT !.bun.dirs = @ \cup {v}])
       \/ Populated([fs EXCEPT !.bun.file = TRUE])

\* An installer run leaves deps/<key> with its node_modules in some state.
WriteDeps ==
    /\ fs.deps.exists
    /\ \E k \in CacheKeys, st \in {"empty", "partial", "populated"} :
          Populated([fs EXCEPT !.deps.keys[k] = st])

\* The index writes its files.
WriteIndex == fs.index.exists /\ Populated([fs EXCEPT !.index.file = TRUE])

InitCache ==
    /\ fs = NoCacheDir
    /\ fsOut = [op |-> "none", prev |-> "none", err |-> FALSE, cleans |-> 0]
    /\ EarlierIdle /\ ConnIdle /\ SrvIdle /\ BridgeIdle /\ RaceIdle /\ TempIdle

NextCache ==
    \/ \E op \in CleanOps : CallClean(op)
    \/ CallEnsureDirs
    \/ WriteBun
    \/ WriteDeps
    \/ WriteIndex

SpecCache == InitCache /\ [][NextCache]_vars

\* A cleaning operation has just been called.
JustCleaned == fsOut'.cleans = fsOut.cleans + 1

C21_Step ==
    JustCleaned =>
        /\ ~fsOut'.err
        /\ fsOut'.prev = fsOut'.op => fs' = fs
        /\ fsOut'.op = "CleanBun" =>
              ListBunVersions(fs') = [list |-> {}, err |-> FALSE]
        /\ fsOut'.op \in {"CleanDeps", "CleanAll"} =>
              /\ ListDepsHashes(fs') = [list |-> {}, err |-> FALSE]
              /\ \A k \in CacheKeys : ~IsDepsHit(fs'.deps.keys, k)

\* C21: CleanBun, CleanDeps, CleanIndex and CleanAll are idempotent: the
\* second of two calls in a row leaves the cache as the first left it and
\* both succeed, also when the subtree or the root does not exist; after
\* CleanBun, ListBunVersions is empty without error, and after CleanDeps or
\* CleanAll, ListDepsHashes is empty and IsDepsHit is false for every key.
C21_CleanIsIdempotent == [][C21_Step]_vars

C21_Witness ==
    /\ fsOut.op = "CleanDeps" /\ fsOut.prev = "CleanDeps" /\ ~fsOut.err
    /\ fs.bun.dirs # {} /\ ~fs.deps.exists

(***************************************************************************)
(* internal/exec: the error Run returns when the resolution step fails.    *)
(* An error is its text, the constraint formatted into it, and the error   *)
(* it wraps ("" when it wraps none).                                       *)
(***************************************************************************)
\* Run, "Resolve bun version": r.resolver.Resolve(bunConstraint) and the
\* return that follows its error.
ResolveStep(src, constraint) ==
    LET r == Resolve(src, constraint)
    IN IF r.ok THEN [code |-> 0, text |-> "", arg |-> constraint, cause |-> ""]
       ELSE [code |-> 1, text |-> "no Bun version satisfies", arg |-> constraint,
             cause |-> ""]

CallResolveStep == Apply("ResolveStep", ResolveStep(callIn.source, callIn.constraint))

InitResolveStep ==
    /\ callIn \in [fn : {"ResolveStep"}, source : ResolveSources, constraint : ResolveConstraints]
    /\ callOut = << >>
    /\ OutsideCallIdle

NextResolveStep == CallResolveStep

SpecResolveStep == InitResolveStep /\ [][NextResolveStep]_vars

\* C22: every launcher error returned by Run carries the underlying cause of
\* the failing step; in particular the error of a failed resolution tells an
\* invalid constraint, an unavailable version index, an empty version list
\* and a constraint no version satisfies apart.
C22_ResolveErrorCarriesCause ==
    (callOut # << >> /\ ~Resolve(callIn.source, callIn.constraint).ok) =>
        /\ callOut[1].code = 1
        /\ callOut[1].cause = Resolve(callIn.source, callIn.constraint).err

(***************************************************************************)
(* internal/cli and internal/exec: from the --packages flag to the package *)
(* list that is hashed and to the names written to package.json.           *)
(***************************************************************************)
MaxArg == 3

\* strings.Split(s, ",")
RECURSIVE SplitComma(_)
SplitComma(str) ==
    LET i == IndexOf(str, ",")
    IN IF i = 0 THEN << str >>
       ELSE << SubSeq(str, 1, i - 1) >> \o SplitComma(SubSeq(str, i + 1, Len(str)))

\* splitAndTrim: as the --packages parsing, with the empty parts dropped.
splitAndTrim(str) ==
    LET parts == SplitComma(str)
    IN SelectSeq([i \in DOMAIN parts |-> TrimSpace(parts[i])], LAMBDA part : part # << >>)

\* runScript, "Parse extra packages from CLI".
ExtraPackages(packagesArg) ==
    IF packagesArg = << >> THEN << >>
    ELSE LET parts == SplitComma(packagesArg)
         IN [i \in DOMAIN parts |-> TrimSpace(parts[i])]

\* strings.LastIndex for one character, 0 if none.
LastIndexOf(str, c) ==
    IF \E i \in DOMAIN str : str[i] = c
    THEN CHOOSE i \in DOMAIN str : str[i] = c /\ \A j \in (i + 1)..Len(str) : str[j] # c
    ELSE 0

\* parsePackageSpec that looks for the first "@" in every spec.
parsePackageSpecFirstAt(pkgSpec) ==
    LET idx == IndexOf(pkgSpec, "@")
    IN IF idx > 1
       THEN [name |-> SubSeq(pkgSpec, 1, idx - 1),
             version |-> SubSeq(pkgSpec, idx + 1, Len(pkgSpec))]
       ELSE [name |-> pkgSpec, version |-> << >>]

\* parsePackageSpec: name and version of name@version and @org/name@version.
parsePackageSpec(pkgSpec) ==
    IF HasPrefix(pkgSpec, << "@" >>)
    THEN LET idx == LastIndexOf(pkgSpec, "@")
         IN IF idx > 1
            THEN [name |-> SubSeq(pkgSpec, 1, idx - 1),
                  version |-> SubSeq(pkgSpec, idx + 1, Len(pkgSpec))]
            ELSE [name |-> pkgSpec, version |-> << >>]
    ELSE LET idx == IndexOf(pkgSpec, "@")
         IN IF idx > 1
            THEN [name |-> SubSeq(pkgSpec, 1, idx - 1),
                  version |-> SubSeq(pkgSpec, idx + 1, Len(pkgSpec))]
            ELSE [name |-> pkgSpec, version |-> << >>]

\* installDeps: the names of the dependencies object of package.json.
ManifestNames(packages) == {parsePackageSpec(packages[i]).name : i \in DOMAIN packages}

\* runScript and Run from the flag to the hash and the manifest.
PackagesOfRun(metaPackages, packagesArg) ==
    LET packages == MergePackages(metaPackages, ExtraPackages(packagesArg))
    IN [ packages |-> packages,
         hash |-> IF Len(packages) > 0 THEN HashPackages(packages) ELSE << >>,
         names |-> IF Len(packages) > 0 THEN ManifestNames(packages) ELSE {} ]

CallPackagesOfRun ==
    Apply("PackagesOfRun", PackagesOfRun(callIn.metaPackages, callIn.packagesArg))

InitPackages ==
    /\ callIn \in [ fn : {"PackagesOfRun"},
                    metaPackages : {<< >>, << PkgA >>},
                    packagesArg : SeqUpTo({"a", ",", " ", "@"}, MaxArg) ]
    /\ callOut = << >>
    /\ OutsideCallIdle

NextPackages == CallPackagesOfRun

SpecPackages == InitPackages /\ [][NextPackages]_vars

\* C23: every package spec of the merged list that is hashed into the cache
\* key and written to the manifest has a non-empty name, whatever the script
\* packages and the --packages value (leading, trailing or doubled commas
\* included): no empty spec and no manifest dependency with an empty name.
C23_NoEmptyPackageSpec ==
    callOut # << >> =>
        /\ \A i \in DOMAIN callOut[1].packages : callOut[1].packages[i] # << >>
        /\ << >> \notin callOut[1].names

(***************************************************************************)
(* internal/proxy: one client connection, step by step.  The handler       *)
(* blocks where it reads from the client, where it dials, and where the    *)
(* two copy directions of a tunnel read from their source.  The peers      *)
(* (client and upstream) send and close when they please.                  *)
(***************************************************************************)
MaxChunks == 2

\* The method reply sent whatever the client offered.
MethodReplyAlwaysNone(r) == authNone

\* "Accept no-auth only": the method of the selection message.
MethodReply(r) == IF r.noAuth THEN authNone ELSE 255

\* The request reply sent before any dial, -1 when the handler goes on to
\* dial.
EarlyReply(f, r) ==
    IF r.cmd # cmdConnect THEN repCmdNotSupported
    ELSE IF ~readAddress(r).ok THEN repAddrNotSupp
    ELSE IF Denied(f, readAddress(r).host) THEN repNotAllowed
    ELSE -1

\* What the server writes to the client.
MethodMsg(code) == [t |-> "method", code |-> code]
ReplyMsg(code) == [t |-> "reply", code |-> code]
DataMsg == [t |-> "data", code |-> 0]

\* The connections clients open: SOCKS5 clients with their greeting and
\* request, and HTTP clients sending CONNECT.
ConnRequests ==
    { r \in [ proto : {"socks5"}, ver : {4, socks5Version}, noAuth : BOOLEAN,
              cmd : {cmdConnect, 2}, atyp : {atypDomain, 9},
              addr : {HostAB, HostEvil, << >>}, port : {<< "8" >>}, dialOK : BOOLEAN ] :
        (r.atyp = 9) <=> (r.addr = << >>) }
      \cup [ proto : {"http"}, listener : {"tcp"}, method : {"CONNECT"},
             urlHost : {HostAB, HostEvil}, header : {HostAB}, dialOK : BOOLEAN ]

\* A connection just accepted.
AcceptedConn(f, r) ==
    [ filter |-> f, req |-> r, pc |-> IF r.proto = "socks5" THEN "greet" ELSE "connect",
      out |-> << >>, dial |-> "none", up |-> "none", down |-> "none",
      clientConn |-> "open", targetConn |-> "none",
      clientPeer |-> "open", targetPeer |-> "none", chunks |-> 0 ]

StayOutsideConn == StayEarlier /\ UNCHANGED << cacheVars, srvVars, bridgeVars, raceVars, tempVars >>

\* The handler returns before any tunnel: the client connection is closed.
Finish(c) == [c EXCEPT !.pc = "closed", !.clientConn = "closed"]

\* handleConnection up to the method selection.
S5Greet ==
    /\ conn.pc = "greet"
    /\ conn' =
         IF conn.clientPeer = "closed" \/ conn.req.ver # socks5Version THEN Finish(conn)
         ELSE IF MethodReply(conn.req) # authNone
         THEN Finish([conn EXCEPT !.out = Append(@, MethodMsg(MethodReply(conn.req)))])
         ELSE [conn EXCEPT !.out = Append(@, MethodMsg(authNone)), !.pc = "request"]
    /\ StayOutsideConn

\* handleConnection from the request to the filter.
S5Request ==
    /\ conn.pc = "request"
    /\ conn' =
         IF conn.clientPeer = "closed" THEN Finish(conn)
         ELSE IF EarlyReply(conn.filter, conn.req) # -1
         THEN Finish([conn EXCEPT !.out = Append(@, ReplyMsg(EarlyReply(conn.filter, conn.req)))])
         ELSE [conn EXCEPT !.pc = "dial"]
    /\ StayOutsideConn

\* handleConnection: net.Dial, the reply, and the start of the two copies.
S5Dial ==
    /\ conn.pc = "dial"
    /\ conn' =
         IF ~conn.req.dialOK
         THEN Finish([conn EXCEPT !.dial = "failed", !.out = Append(@, ReplyMsg(repHostUnreach))])
         ELSE [conn EXCEPT !.dial = "ok", !.out = Append(@, ReplyMsg(repSuccess)),
                           !.targetConn = "open", !.targetPeer = "open",
                           !.up = "copying", !.down = "copying", !.pc = "tunnel"]
    /\ StayOutsideConn

\* handleConnect: the filter, net.DialTimeout, Hijack, the 200 line and the
\* start of the two copies.
HTTPConnect ==
    /\ conn.pc = "connect"
    /\ conn' =
         IF Denied(conn.filter, ServerRequestHost(conn.req))
         THEN Finish([conn EXCEPT !.out = Append(@, ReplyMsg(StatusForbidden))])
         ELSE IF ~conn.req.dialOK
         THEN Finish([conn EXCEPT !.dial = "failed", !.out = Append(@, ReplyMsg(StatusBadGateway))])
         ELSE [conn EXCEPT !.dial = "ok", !.out = Append(@, ReplyMsg(StatusOK)),
                           !.targetConn = "open", !.targetPeer = "open",
                           !.up = "copying", !.down = "copying", !.pc = "tunnel"]
    /\ StayOutsideConn

\* io.Copy(targetConn, clientConn) moves what the client sent.
CopyUp ==
    /\ conn.up = "copying" /\ conn.chunks < MaxChunks
    /\ conn.clientPeer = "open" /\ conn.clientConn = "open" /\ conn.targetConn = "open"
    /\ conn' = [conn EXCEPT !.chunks = @ + 1]
    /\ StayOutsideConn

\* io.Copy(clientConn, targetConn) moves what the upstream sent; writing to
\* a client that is gone fails and ends the copy.
CopyDown ==
    /\ conn.down = "copying" /\ conn.chunks < MaxChunks
    /\ conn.targetPeer = "open" /\ conn.clientConn = "open" /\ conn.targetConn = "open"
    /\ conn' = IF conn.clientPeer = "open"
               THEN [conn EXCEPT !.chunks = @ + 1, !.out = Append(@, DataMsg)]
               ELSE [conn EXCEPT !.chunks = @ + 1, !.down = "done",
                                 !.clientConn = IF conn.req.proto = "http" THEN "closed" ELSE @]
    /\ StayOutsideConn

\* The copy from the client ends: EOF or an error on either connection.
\* handleConnect's goroutine then closes targetConn; handleConnection's
\* does nothing more.
UpEnds ==
    /\ conn.up = "copying"
    /\ conn.clientPeer = "closed" \/ conn.clientConn = "closed" \/ conn.targetConn = "closed"
    /\ conn' = [conn EXCEPT !.up = "done",
                            !.targetConn = IF conn.req.proto = "http" THEN "closed" ELSE @]
    /\ StayOutsideConn

\* The copy from the upstream ends: EOF or an error on either connection.
\* handleConnect's goroutine then closes clientConn.
DownEnds ==
    /\ conn.down = "copying"
    /\ conn.targetPeer = "closed" \/ conn.targetConn = "closed" \/ conn.clientConn = "closed"
    /\ conn' = [conn EXCEPT !.down = "done",
                            !.clientConn = IF conn.req.proto = "http" THEN "closed" ELSE @]
    /\ StayOutsideConn

\* handleConnection: wg.Wait() returns and the deferred Close calls run.
S5Return ==
    /\ conn.pc = "tunnel" /\ conn.req.proto = "socks5"
    /\ conn.up = "done" /\ conn.down = "done"
    /\ conn' = [conn EXCEPT !.pc = "closed", !.clientConn = "closed", !.targetConn = "closed"]
    /\ StayOutsideConn

\* The client closes its side.
ClientCloses ==
    /\ conn.pc # "closed" /\ conn.clientPeer = "open"
    /\ conn' = [conn EXCEPT !.clientPeer = "closed"]
    /\ StayOutsideConn

\* The upstream closes its side.
TargetCloses ==
    /\ conn.targetPeer = "open"
    /\ conn' = [conn EXCEPT !.targetPeer = "closed"]
    /\ StayOutsideConn

InitConn ==
    /\ conn \in {AcceptedConn(ManagerFilter(l), r) : l \in {<< >>, << HostAB >>}, r \in ConnRequests}
    /\ EarlierIdle /\ CacheIdle /\ SrvIdle /\ BridgeIdle /\ RaceIdle /\ TempIdle

\* The steps the proxy takes by itself.
ProxySteps ==
    \/ S5Greet
    \/ S5Request
    \/ S5Dial
    \/ HTTPConnect
    \/ UpEnds
    \/ DownEnds
    \/ S5Return

NextConn ==
    \/ ProxySteps
    \/ CopyUp
    \/ CopyDown
    \/ ClientCloses
    \/ TargetCloses

SpecConn == InitConn /\ [][NextConn]_vars

\* The proxy's own steps are taken when they can be; the peers owe nothing.
SpecConnFair == SpecConn /\ WF_vars(ProxySteps)

\* The positions of the output holding a message of kind t.
MsgsOf(t) == {i \in DOMAIN conn.out : conn.out[i].t = t}

OneDirectionDone == conn.up = "done" \/ conn.down = "done"

\* Both directions have terminated and both connections are closed.
TunnelTornDown ==
    /\ conn.up = "done" /\ conn.down = "done"
    /\ conn.clientConn = "closed" /\ conn.targetConn = "closed"

\* C25: for every tunnel, HTTP CONNECT and SOCKS5 alike, once either copy
\* direction terminates the other direction is terminated too and both the
\* client connection and the upstream connection are eventually closed, even
\* when the peer that is still open never sends data and never closes.
C25_TunnelTornDownTogether == OneDirectionDone ~> TunnelTornDown

\* The same for the tunnels of HTTP CONNECT alone.
ConnectTunnelTornDown ==
    (conn.req.proto = "http" /\ OneDirectionDone) ~> TunnelTornDown

(***************************************************************************)
(* internal/proxy: Manager.Stop against proxies that are serving.  The     *)
(* HTTP proxies (TCP and Unix socket) count their handlers in flight; the  *)
(* SOCKS5 proxy has its accept loop, its WaitGroup and its handlers.  A    *)
(* handler ends when its peers let it.                                     *)
(***************************************************************************)
MaxConns == 2

\* context.WithTimeout(context.Background(), 5*time.Second)
GraceSecs == 5

\* A manager that has just started its proxies.
Serving(socketProxy, socks5Proxy) ==
    [ socketProxy |-> socketProxy, socks5Proxy |-> socks5Proxy,
      pc |-> "serving", timer |-> 0,
      socketActive |-> 0, httpActive |-> 0,
      loop |-> IF socks5Proxy THEN "accept" ELSE "none",
      pending |-> 0, quit |-> "open", listener |-> "open",
      wg |-> 0, handlers |-> 0, s5Stopped |-> FALSE ]

StayOutsideSrv == StayEarlier /\ UNCHANGED << cacheVars, connVars, bridgeVars, raceVars, tempVars >>

\* Where Manager.Stop goes after the socket proxy, and after the SOCKS5 proxy.
AfterSocket(g) == IF g.socks5Proxy THEN "socks5" ELSE "http"

\* m.Stop() is called.
StopCalled ==
    /\ srv.pc = "serving"
    /\ srv' = [srv EXCEPT !.pc = IF srv.socketProxy THEN "socket" ELSE AfterSocket(srv),
                          !.timer = 0]
    /\ StayOutsideSrv

\* server.Shutdown(ctx) gives up at the deadline while handlers are in flight.
ShutdownExpired(active, timer) == active > 0 /\ timer >= GraceSecs

\* server.Shutdown(ctx) returns: no handler in flight, or the deadline.
ShutdownReturns(active, timer) == active = 0 \/ ShutdownExpired(active, timer)

\* HTTPProxy.Stop of the socket proxy returns (and the socket file goes).
SocketProxyStopped ==
    /\ srv.pc = "socket"
    /\ ShutdownReturns(srv.socketActive, srv.timer)
    /\ srv' = [srv EXCEPT !.pc = AfterSocket(srv), !.timer = 0]
    /\ StayOutsideSrv

\* SOCKS5Proxy.Stop: close(p.quit) and p.listener.Close().
S5StopCloses ==
    /\ srv.pc = "socks5"
    /\ srv' = [srv EXCEPT !.quit = "closed", !.listener = "closed", !.pending = 0,
                          !.pc = "wait"]
    /\ StayOutsideSrv

\* p.wg.Wait() returns when the counter is zero.
WaitReturns(wg) == wg = 0

\* SOCKS5Proxy.Stop returns.
S5Stopped ==
    /\ srv.pc = "wait"
    /\ WaitReturns(srv.wg)
    /\ srv' = [srv EXCEPT !.pc = "http", !.s5Stopped = TRUE, !.timer = 0]
    /\ StayOutsideSrv

\* HTTPProxy.Stop of the HTTP proxy returns, and with it Manager.Stop.
HTTPProxyStopped ==
    /\ srv.pc = "http"
    /\ ShutdownReturns(srv.httpActive, srv.timer)
    /\ srv' = [srv EXCEPT !.pc = "returned"]
    /\ StayOutsideSrv

\* A second of the graceful window of the Shutdown in progress passes.
TickGrace ==
    /\ srv.pc \in {"socket", "http"} /\ srv.timer < GraceSecs
    /\ srv' = [srv EXCEPT !.timer = @ + 1]
    /\ StayOutsideSrv

\* acceptLoop: Accept returns a connection.
S5Accept ==
    /\ srv.loop = "accept" /\ srv.listener = "open" /\ srv.pending > 0
    /\ srv' = [srv EXCEPT !.loop = "accepted", !.pending = @ - 1]
    /\ StayOutsideSrv

\* acceptLoop: Accept fails on the closed listener and quit is closed.
S5LoopExits ==
    /\ srv.loop = "accept" /\ srv.listener = "closed" /\ srv.quit = "closed"
    /\ srv' = [srv EXCEPT !.loop = "exited"]
    /\ StayOutsideSrv

\* acceptLoop: p.wg.Add(1) and the handler goroutine for the connection
\* Accept returned.
S5Spawn ==
    /\ srv.loop = "accepted"
    /\ srv' = [srv EXCEPT !.loop = "accept", !.wg = @ + 1, !.handlers = @ + 1]
    /\ StayOutsideSrv

\* A SOCKS5 handler returns: defer p.wg.Done().
S5HandlerEnds ==
    /\ srv.handlers > 0
    /\ srv' = [srv EXCEPT !.handlers = @ - 1, !.wg = @ - 1]
    /\ StayOutsideSrv

\* A client connects to the SOCKS5 listener.
S5ClientConnects ==
    /\ srv.socks5Proxy /\ srv.listener = "open"
    /\ srv.pending + srv.handlers + (IF srv.loop = "accepted" THEN 1 ELSE 0) < MaxConns
    /\ srv' = [srv EXCEPT !.pending = @ + 1]
    /\ StayOutsideSrv

\* A request arrives at an HTTP proxy that has not begun to shut down.
HTTPRequestArrives ==
    \/ /\ srv.socketProxy /\ srv.pc = "serving" /\ srv.socketActive < MaxConns
       /\ srv' = [srv EXCEPT !.socketActive = @ + 1]
       /\ StayOutsideSrv
    \/ /\ srv.pc \in {"serving", "socket", "socks5", "wait"} /\ srv.httpActive < MaxConns
       /\ srv' = [srv EXCEPT !.httpActive = @ + 1]
       /\ StayOutsideSrv

\* An HTTP handler returns.
HTTPHandlerEnds ==
    \/ /\ srv.socketActive > 0
       /\ srv' = [srv EXCEPT !.socketActive = @ - 1]
       /\ StayOutsideSrv
    \/ /\ srv.httpActive > 0
       /\ srv' = [srv EXCEPT !.httpActive = @ - 1]
       /\ StayOutsideSrv

InitStop ==
    /\ srv \in {Serving(so, s5) : so \in BOOLEAN, s5 \in BOOLEAN}
    /\ EarlierIdle /\ CacheIdle /\ ConnIdle /\ BridgeIdle /\ RaceIdle /\ TempIdle

\* What the process does by itself: Stop, the clock, and the accept loop.
OwnSteps ==
    \/ SocketProxyStopped
    \/ S5StopCloses
    \/ S5Stopped
    \/ HTTPProxyStopped
    \/ TickGrace
    \/ S5Accept
    \/ S5LoopExits
    \/ S5Spawn

NextStop ==
    \/ StopCalled
    \/ OwnSteps
    \/ S5HandlerEnds
    \/ S5ClientConnects
    \/ HTTPRequestArrives
    \/ HTTPHandlerEnds

SpecStop == InitStop /\ [][NextStop]_vars

\* The process's own steps are taken when they can be; clients and
\* upstreams owe nothing.
SpecStopFair == SpecStop /\ WF_vars(OwnSteps)

\* C28: Manager.Stop always returns, within the graceful window, however
\* many client connections or tunnels are open on the HTTP, Unix socket or
\* SOCKS5 listeners and whether or not their peers ever close.
C28_StopAlwaysReturns == (srv.pc # "serving") ~> (srv.pc = "returned")

\* The same for a manager that has no SOCKS5 proxy.
StopReturnsWithoutSOCKS5 == (~srv.socks5Proxy /\ srv.pc # "serving") ~> (srv.pc = "returned")

\* C30: after SOCKS5Proxy.Stop has returned no connection handler is running
\* and none is started: under every interleaving of Stop with the accept
\* loop, a connection accepted while Stop runs is handled to completion
\* before Stop returns or is never handled.
C30_NoHandlerAfterStop == srv.s5Stopped => srv.handlers = 0

\* ---------------------------------------------------------------------
\* The shell command of BuildSocatBridgeCommand, run inside the namespace:
\* socat in the background, the probe loop, the interpreter, the clean-up.

\* The probes of the loop "for i in 1 2 3 4 5 6 7 8 9 10".
Retries == 10

\* Exit statuses of the interpreter that are told apart.
ExitCodes == {0, 1, 137}

\* The shell about to run the first line. nc tells whether the probing
\* tool can be run there; socat is the background job, bun the interpreter.
BridgeShell(nc) ==
    [ pc |-> "spawn", i |-> 1, nc |-> nc, socat |-> "none", probed |-> FALSE,
      bun |-> "not-started", exitCode |-> -1, status |-> -1 ]

StayOutsideBridge == StayEarlier /\ UNCHANGED << cacheVars, connVars, srvVars, raceVars, tempVars >>

\* socat TCP-LISTEN:<port>,fork,reuseaddr UNIX-CONNECT:<socket> &
\* SOCAT_PID=$!
SpawnSocat ==
    /\ bridge.pc = "spawn"
    /\ bridge' = [bridge EXCEPT !.pc = "probe", !.socat = "starting"]
    /\ StayOutsideBridge

\* The background job binds the loopback port and listens.
SocatListens ==
    /\ bridge.socat = "starting"
    /\ bridge' = [bridge EXCEPT !.socat = "listening"]
    /\ StayOutsideBridge

\* The background job ends without listening: no socat, or no port.
SocatFails ==
    /\ bridge.socat = "starting"
    /\ bridge' = [bridge EXCEPT !.socat = "dead"]
    /\ StayOutsideBridge

\* nc -z 127.0.0.1 <port> 2>/dev/null: status 0 when the connection was
\* accepted.
ProbeSucceeds(b) == b.nc /\ b.socat = "listening"

\* if nc -z ...; then break; fi
Probe ==
    /\ bridge.pc = "probe"
    /\ bridge' = IF ProbeSucceeds(bridge)
                 THEN [bridge EXCEPT !.pc = "command", !.probed = TRUE]
                 ELSE [bridge EXCEPT !.pc = "sleep"]
    /\ StayOutsideBridge

\* sleep 0.05; done: the next probe, or past the loop after the last one.
Sleep ==
    /\ bridge.pc = "sleep"
    /\ bridge' = IF bridge.i < Retries
                 THEN [bridge EXCEPT !.pc = "probe", !.i = bridge.i + 1]
                 ELSE [bridge EXCEPT !.pc = "command"]
    /\ StayOutsideBridge

\* The line after the loop: the interpreter command starts.
RunBunCmd ==
    /\ bridge.pc = "command"
    /\ bridge.bun = "not-started"
    /\ bridge' = [bridge EXCEPT !.bun = "running"]
    /\ StayOutsideBridge

\* The interpreter exits; EXIT_CODE=$?
BunExits ==
    /\ bridge.bun = "running"
    /\ \E c \in ExitCodes :
         bridge' = [bridge EXCEPT !.bun = "exited", !.exitCode = c, !.pc = "kill"]
    /\ StayOutsideBridge

\* kill $SOCAT_PID 2>/dev/null; exit $EXIT_CODE
KillAndExit ==
    /\ bridge.pc = "kill"
    /\ bridge' = [bridge EXCEPT !.pc = "exited", !.socat = "dead",
                                !.status = bridge.exitCode]
    /\ StayOutsideBridge

InitBridge ==
    /\ bridge \in {BridgeShell(nc) : nc \in BOOLEAN}
    /\ EarlierIdle /\ CacheIdle /\ ConnIdle /\ SrvIdle /\ RaceIdle /\ TempIdle

NextBridge ==
    \/ SpawnSocat
    \/ SocatListens
    \/ SocatFails
    \/ Probe
    \/ Sleep
    \/ RunBunCmd
    \/ BunExits
    \/ KillAndExit

SpecBridge == InitBridge /\ [][NextBridge]_vars

\* C29: in a proxied namespace execution the interpreter command starts
\* only after the bridge's loopback port has accepted a connection; if the
\* port never becomes connectable within the retry loop the interpreter is
\* not started.
C29_InterpreterOnlyBehindBridge == bridge.bun # "not-started" => bridge.probed

\* A probe that succeeded is always followed by the interpreter, and by
\* nothing else of the loop.
ProbedThenCommand == bridge.probed => bridge.pc \in {"command", "kill", "exited"}

\* The shell's exit status is the interpreter's.
BridgeExitStatus == bridge.pc = "exited" => bridge.status = bridge.exitCode /\ bridge.socat = "dead"

(***************************************************************************)
(* The environment the interpreter sees under the backends that run it     *)
(* through exec.Cmd: LinuxNetwork.Execute and Bubblewrap.Execute.          *)
(***************************************************************************)

\* The loopback port the byte-bridging tool listens on inside the
\* namespace. The package declares it in a file that is not among the
\* sources; the number stands for that declaration.
SandboxBridgePort == 18080

\* Ports the kernel hands out for a listener on 127.0.0.1:0.
EphemeralPorts == {40001, 40002}

\* strconv.Itoa
RECURSIVE Itoa(_)
Itoa(n) == IF n < 10 THEN << Digit(n) >> ELSE Itoa(n \div 10) \o << Digit(n % 10) >>

LoopbackAddr(port) == << "1", "2", "7", ".", "0", ".", "0", ".", "1", ":" >> \o Itoa(port)
HTTPScheme == << "h", "t", "t", "p", ":", "/", "/" >>
SOCKS5Scheme == << "s", "o", "c", "k", "s", "5", ":", "/", "/" >>

NameHTTPProxy == << "H", "T", "T", "P", "_", "P", "R", "O", "X", "Y" >>
NameHTTPSProxy == << "H", "T", "T", "P", "S", "_", "P", "R", "O", "X", "Y" >>
NameLowerHTTPProxy == << "h", "t", "t", "p", "_", "p", "r", "o", "x", "y" >>
NameLowerHTTPSProxy == << "h", "t", "t", "p", "s", "_", "p", "r", "o", "x", "y" >>
NameAllProxy == << "A", "L", "L", "_", "P", "R", "O", "X", "Y" >>
NameLowerAllProxy == << "a", "l", "l", "_", "p", "r", "o", "x", "y" >>
NameNodePath == << "N", "O", "D", "E", "_", "P", "A", "T", "H" >>
NameRAMSize == << "B", "U", "N", "_", "J", "S", "C", "_", "f", "o", "r", "c", "e",
                  "R", "A", "M", "S", "i", "z", "e" >>

Setenv(name, value) == name \o << "=" >> \o value

\* ProxyEnvVars: the variables for the bridge port. No Execute applies it.
ProxyEnvVars ==
    LET addr == HTTPScheme \o LoopbackAddr(SandboxBridgePort)
    IN << Setenv(NameHTTPProxy, addr), Setenv(NameHTTPSProxy, addr),
          Setenv(NameLowerHTTPProxy, addr), Setenv(NameLowerHTTPSProxy, addr),
          Setenv(NameAllProxy, addr) >>

\* Manager.EnvVars: the variables for the host proxy's listeners. m is
\* [httpPort, socks5Port, socketPath], socks5Port 0 without a SOCKS5 proxy.
EnvVars(m) ==
    LET httpAddr == HTTPScheme \o LoopbackAddr(m.httpPort)
        socks5Addr == SOCKS5Scheme \o LoopbackAddr(m.socks5Port)
    IN << Setenv(NameHTTPProxy, httpAddr), Setenv(NameHTTPSProxy, httpAddr),
          Setenv(NameLowerHTTPProxy, httpAddr), Setenv(NameLowerHTTPSProxy, httpAddr) >>
       \o (IF m.socks5Port # 0
           THEN << Setenv(NameAllProxy, socks5Addr), Setenv(NameLowerAllProxy, socks5Addr) >>
           ELSE << >>)

\* execScriptSandboxed: the sandbox.Config built for a sandboxing backend.
\* o is [network, allowEnv, memoryMB, nodeModules]; m is the manager that
\* NewManager returned when one is needed.
ExecConfig(o, m) ==
    [ Network |-> o.network,
      ProxySocketPath |-> IF o.network THEN m.socketPath ELSE "",
      Env |-> IF o.network THEN EnvVars(m) ELSE << >>,
      AllowedEnvVars |-> o.allowEnv,
      MemoryMB |-> o.memoryMB,
      NodeModules |-> o.nodeModules ]

\* SetupCommand: cmd.Env
SetupCommand(cfg, environ) == FilterEnv(environ, cfg.AllowedEnvVars) \o cfg.Env

BuildEnvWithNodePath(baseEnv, nodeModules) ==
    IF nodeModules = "" THEN baseEnv
    ELSE baseEnv \o << Setenv(NameNodePath, << "/", "d" >>) >>

BuildEnvWithMemoryLimit(baseEnv, memoryMB) ==
    IF memoryMB <= 0 THEN baseEnv
    ELSE baseEnv \o << Setenv(NameRAMSize, Itoa(memoryMB * 1024 * 1024)) >>

\* The environment of the command that LinuxNetwork.Execute and
\* Bubblewrap.Execute run; the shell and the interpreter inherit it.
ExecuteEnv(cfg, environ) ==
    BuildEnvWithMemoryLimit(
        BuildEnvWithNodePath(SetupCommand(cfg, environ), cfg.NodeModules), cfg.MemoryMB)

\* The command goes through the byte-bridging shell.
UsesBridge(cfg) == cfg.Network /\ cfg.ProxySocketPath # ""

\* What the started process finds under a name: os/exec keeps the last of
\* the entries of one name.
Getenv(env, name) ==
    LET at == {i \in DOMAIN env : Len(SplitN2(env[i])) = 2 /\ SplitN2(env[i])[1] = name}
    IN IF at = {} THEN << >>
       ELSE SplitN2(env[CHOOSE i \in at : \A j \in at : j <= i])[2]

\* The process environment of buns: a proxy variable of the host's own,
\* a safe variable, or neither.
HostEnvirons ==
    { << >>, << EnvPath >>,
      << Setenv(NameHTTPProxy, HTTPScheme \o << "c", "o", "r", "p", ":", "8", "0" >>) >> }

Managers ==
    [ httpPort : EphemeralPorts, socks5Port : {0, 40003}, socketPath : {"", "/tmp/buns-proxy.sock"} ]

ExecuteInputs ==
    [ fn : {"ExecuteEnv"},
      backend : {"linux-network", "bubblewrap"},
      opts : [ network : BOOLEAN, allowEnv : {<< >>, << NameHTTPProxy >>},
               memoryMB : {0, 1}, nodeModules : {"", "/d"} ],
      mgr : Managers,
      environ : HostEnvirons ]

CallExecuteEnv ==
    LET cfg == ExecConfig(callIn.opts, callIn.mgr)
    IN Apply("ExecuteEnv", [cfg |-> cfg, env |-> ExecuteEnv(cfg, callIn.environ)])

InitExecuteEnv ==
    /\ callIn \in ExecuteInputs
    /\ callOut = << >>
    /\ OutsideCallIdle

NextExecuteEnv == CallExecuteEnv

SpecExecuteEnv == InitExecuteEnv /\ [][NextExecuteEnv]_vars

ProxyNames == {NameHTTPProxy, NameHTTPSProxy, NameLowerHTTPProxy, NameLowerHTTPSProxy}

\* C31: in the proxied namespace modes (LinuxNetwork and Bubblewrap with
\* network enabled and a proxy socket path) the HTTP_PROXY, HTTPS_PROXY and
\* lowercase proxy variables the interpreter sees point at the fixed
\* loopback port of the bridge, not at the host proxy's ephemeral port.
C31_ProxyEnvPointsAtBridge ==
    (callOut # << >> /\ callIn.fn = "ExecuteEnv" /\ UsesBridge(callOut[1].cfg)) =>
        \A n \in ProxyNames :
            Getenv(callOut[1].env, n) = HTTPScheme \o LoopbackAddr(SandboxBridgePort)

\* What they point at: the host proxy's own listener.
ProxyEnvPointsAtHostProxy ==
    (callOut # << >> /\ callIn.fn = "ExecuteEnv" /\ UsesBridge(callOut[1].cfg)) =>
        \A n \in ProxyNames :
            Getenv(callOut[1].env, n) = HTTPScheme \o LoopbackAddr(callIn.mgr.httpPort)

(***************************************************************************)
(* internal/sandbox: the arguments the full namespace backends build.      *)
(* An argument list is a sequence of groups, one per append of the code,   *)
(* each a sequence of strings. The host file system is a function from     *)
(* absolute paths to what is there.                                        *)
(***************************************************************************)

MaxPaths == 2

\* What a path can be: a directory, nothing, a symbolic link to /real, or
\* something that cannot be examined (an error other than "not exist").
PathKinds == {"dir", "absent", "link", "unresolvable"}

\* filepath.Abs with the working directory /cwd.
Abs(path) == IF path = "rel" THEN "/cwd/rel" ELSE path

\* ResolvePath: the path with symbolic links followed; the absolute path
\* itself, and no error, when nothing is there.
ResolvePath(f, path) ==
    LET absPath == Abs(path)
    IN CASE f[absPath] = "dir" -> [path |-> absPath, err |-> FALSE]
         [] f[absPath] = "link" -> [path |-> "/real", err |-> FALSE]
         [] f[absPath] = "absent" -> [path |-> absPath, err |-> FALSE]
         [] OTHER -> [path |-> "", err |-> TRUE]

\* os.MkdirAll(path, 0755): the file system afterwards and whether it
\* failed. canMake is the system's answer where the path cannot be examined.
MkdirAll(f, path, canMake) ==
    LET absPath == Abs(path)
    IN CASE f[absPath] \in {"dir", "link"} -> [fs |-> f, err |-> FALSE]
         [] f[absPath] = "absent" -> [fs |-> [f EXCEPT ![absPath] = "dir"], err |-> FALSE]
         [] OTHER -> IF canMake THEN [fs |-> [f EXCEPT ![absPath] = "dir"], err |-> FALSE]
                     ELSE [fs |-> f, err |-> TRUE]

\* "Additional writable paths": the binds appended and the file system
\* afterwards. flag is --bind or -B, twice is whether the destination is
\* given as well.
RECURSIVE WritableBinds(_, _, _, _, _)
WritableBinds(f, paths, canMake, flag, twice) ==
    IF paths = << >> THEN [args |-> << >>, fs |-> f]
    ELSE LET path == Head(paths)
             r == ResolvePath(f, path)
             m == MkdirAll(f, path, canMake)
             bind(x) == IF twice THEN << flag, x, x >> ELSE << flag, x >>
         IN IF ~r.err
            THEN LET rest == WritableBinds(f, Tail(paths), canMake, flag, twice)
                 IN [args |-> << bind(r.path) >> \o rest.args, fs |-> rest.fs]
            ELSE IF m.err
            THEN WritableBinds(f, Tail(paths), canMake, flag, twice)
            ELSE LET rest == WritableBinds(m.fs, Tail(paths), canMake, flag, twice)
                 IN [args |-> << bind(path) >> \o rest.args, fs |-> rest.fs]

\* BuildBunArgs, and BuildBunCommand with each word in single quotes.
BuildBunArgs(cfg) == << cfg.BunBinary, "run", cfg.ScriptPath >>
BuildBunCommand(cfg) == << "'", cfg.BunBinary, "'", " ", "'", "run", "'", " ", "'", cfg.ScriptPath, "'" >>

\* BuildSocatBridgeCommand: the script, as the socket it connects and the
\* command it runs after the probe loop.
BuildSocatBridgeCommand(socketPath, bunCmd) == << "socat-bridge", socketPath >> \o bunCmd

\* Bubblewrap.buildArgs: the namespace flags, the root, the read-write
\* binds, /tmp, the proxy socket and the command. The read-only binds (system
\* directories, interpreter, script, dependencies, readable paths) are
\* appends of their own in between and are not listed.
BubblewrapBuildArgs(cfg, f, canMake) ==
    LET w == WritableBinds(f, cfg.WritablePaths, canMake, "--bind", TRUE)
        proxied == cfg.Network /\ cfg.ProxySocketPath # ""
    IN [ args |->
            << << "--unshare-user", "--unshare-pid", "--unshare-uts", "--unshare-cgroup",
                  "--unshare-net", "--die-with-parent", "--new-session" >>,
               << "--tmpfs", "/" >> >>
            \o w.args
            \o << << "--tmpfs", "/tmp" >> >>
            \o (IF proxied
                THEN << << "--ro-bind", cfg.ProxySocketPath, "/tmp/proxy.sock" >> >>
                ELSE << >>)
            \o (IF proxied
                THEN << << "/bin/sh", "-c" >>
                          \o BuildSocatBridgeCommand("/tmp/proxy.sock", BuildBunCommand(cfg)) >>
                ELSE << BuildBunArgs(cfg) >>),
         fs |-> w.fs ]

\* Nsjail.buildArgs, in the same way; its -E arguments are not listed.
NsjailBuildArgs(cfg, f, canMake) ==
    LET w == WritableBinds(f, cfg.WritablePaths, canMake, "-B", FALSE)
    IN [ args |->
            << << "--mode", "o" >>, << "--user", "65534" >>, << "--group", "65534" >>,
               << "--quiet" >> >>
            \o (IF ~cfg.Network THEN << << "--clone_newnet" >> >>
                ELSE IF cfg.ProxySocketPath # "" THEN << << "--disable_clone_newnet" >> >>
                ELSE << >>)
            \o w.args
            \o << << "--tmpfsmount", "/tmp" >> >>
            \o << << "--" >> >>
            \o << BuildBunArgs(cfg) >>,
         fs |-> w.fs ]

buildArgs(backend, cfg, f, canMake) ==
    IF backend = "bubblewrap" THEN BubblewrapBuildArgs(cfg, f, canMake)
    ELSE NsjailBuildArgs(cfg, f, canMake)

WritableNames == {"/w", "/l", "rel"}

\* The host when buildArgs is called: /real is a directory, /l a link to it.
HostFiles ==
    { [q \in {"/w", "/l", "/cwd/rel", "/real"} |->
          CASE q = "/real" -> "dir" [] q = "/l" -> "link" [] q = "/w" -> a [] OTHER -> b]
      : a \in PathKinds \ {"link"}, b \in PathKinds \ {"link"} }

BuildArgsInputs ==
    [ fn : {"buildArgs"},
      backend : {"bubblewrap", "nsjail"},
      cfg : [ Network : BOOLEAN, ProxySocketPath : {"", "/tmp/buns-proxy.sock"},
              WritablePaths : SeqUpTo(WritableNames, MaxPaths),
              BunBinary : {"/c/bun"}, ScriptPath : {"/s/a.ts"} ],
      files : HostFiles,
      canMake : BOOLEAN ]

CallBuildArgs ==
    Apply("buildArgs", buildArgs(callIn.backend, callIn.cfg, callIn.files, callIn.canMake))

InitBuildArgs ==
    /\ callIn \in BuildArgsInputs
    /\ callOut = << >>
    /\ OutsideCallIdle

NextBuildArgs == CallBuildArgs

SpecBuildArgs == InitBuildArgs /\ [][NextBuildArgs]_vars

Built == callOut # << >> /\ callIn.fn = "buildArgs"

\* The invocation binds the proxy socket inside the jail and runs the
\* interpreter through the byte-bridging shell.
BridgedInvocation(args, cfg) ==
    /\ \E i \in DOMAIN args :
          Len(args[i]) >= 2 /\ args[i][2] = cfg.ProxySocketPath
              /\ args[i][1] \in {"--ro-bind", "--bind", "-R", "-B"}
    /\ LET cmd == args[Len(args)]
       IN Len(cmd) >= 3 /\ cmd[1] = "/bin/sh" /\ cmd[3] = "socat-bridge"

\* C32: for both full namespace backends, whenever network is enabled and
\* a proxy socket path is set, the generated invocation binds the proxy
\* socket inside the jail and runs the interpreter through the
\* byte-bridging shell script, never as the bare interpreter command.
C32_FullBackendsBridgeWhenProxied ==
    (Built /\ callIn.cfg.Network /\ callIn.cfg.ProxySocketPath # "") =>
        BridgedInvocation(callOut[1].args, callIn.cfg)

\* The same for Bubblewrap alone.
BubblewrapBridgesWhenProxied ==
    (Built /\ callIn.backend = "bubblewrap" /\ callIn.cfg.Network
         /\ callIn.cfg.ProxySocketPath # "") =>
        BridgedInvocation(callOut[1].args, callIn.cfg)

\* The sources of the read-write binds of an argument list.
ReadWriteSources(args) ==
    {args[i][2] : i \in {j \in DOMAIN args : args[j][1] \in {"--bind", "-B"}}}

\* C33: for every --allow-write path that does not exist when a full
\* namespace backend builds its arguments the directory is created before
\* the path is passed as a read-write bind, so that no read-write bind
\* names a source that does not exist.
C33_WritableBindSourcesExist ==
    Built => \A src \in ReadWriteSources(callOut[1].args) :
                 callOut[1].fs[Abs(src)] \in {"dir", "link"}

\* buildArgs leaves alone every path that it could resolve.
BuildArgsCreatesOnlyUnresolvable ==
    Built => \A q \in DOMAIN callIn.files :
                 callOut[1].fs[q] # callIn.files[q] => callIn.files[q] = "unresolvable"

(***************************************************************************)
(* Two invocations of Runner.Run with the same package list against one    *)
(* cache root, from the dependency step to the end of the script.          *)
(***************************************************************************)

MaxRaceRuns == 2

Procs == {1, 2}

\* deps/<key>/node_modules as IsDepsHit finds it: a directory with entries
\* is a hit, whether or not an installer has finished writing it.
TreeIsHit(tree) == tree \in {"partial", "complete"}

StayOutsideRace == StayEarlier /\ UNCHANGED << cacheVars, connVars, srvVars, bridgeVars, tempVars >>

\* Run is called and reaches "Handle dependencies".
RaceRunStarts(p) ==
    /\ race.pc[p] = "idle"
    /\ race.runs[p] < MaxRaceRuns
    /\ race' = [race EXCEPT !.pc[p] = "check"]
    /\ StayOutsideRace

\* r.cache.IsDepsHit(hash)
RaceCheck(p) ==
    /\ race.pc[p] = "check"
    /\ race' = [race EXCEPT !.pc[p] = IF TreeIsHit(race.tree) THEN "ready" ELSE "prepare"]
    /\ StayOutsideRace

\* installDeps: os.MkdirAll(depsDir) and package.json
RacePrepare(p) ==
    /\ race.pc[p] = "prepare"
    /\ race' = [race EXCEPT !.pc[p] = "install", !.manifest = TRUE]
    /\ StayOutsideRace

\* installDeps: cmd.Run() starts `bun install` in depsDir.
RaceInstallStarts(p) ==
    /\ race.pc[p] = "install"
    /\ race' = [race EXCEPT !.pc[p] = "installing",
                            !.installing = race.installing \cup {p},
                            !.together = race.together \/ race.installing # {}]
    /\ StayOutsideRace

\* The installer writes the first entries of node_modules.
RaceInstallWrites(p) ==
    /\ race.pc[p] = "installing"
    /\ race.tree = "absent"
    /\ race' = [race EXCEPT !.tree = "partial"]
    /\ StayOutsideRace

\* The installer exits with everything written; installDeps returns nil.
RaceInstallEnds(p) ==
    /\ race.pc[p] = "installing"
    /\ race' = [race EXCEPT !.pc[p] = "ready",
                            !.installing = race.installing \ {p},
                            !.tree = "complete"]
    /\ StayOutsideRace

\* execScript / execScriptSandboxed starts the script with NODE_PATH in
\* the tree as it is then.
RaceExecStarts(p) ==
    /\ race.pc[p] = "ready"
    /\ race' = [race EXCEPT !.pc[p] = "exec", !.ranOn[p] = race.tree]
    /\ StayOutsideRace

\* The script exits and Run returns.
RaceExecEnds(p) ==
    /\ race.pc[p] = "exec"
    /\ race' = [race EXCEPT !.pc[p] = "idle", !.runs[p] = race.runs[p] + 1]
    /\ StayOutsideRace

InitRace ==
    /\ race = [ pc |-> [p \in Procs |-> "idle"], runs |-> [p \in Procs |-> 0],
                tree |-> "absent", manifest |-> FALSE, installing |-> {},
                together |-> FALSE, ranOn |-> [p \in Procs |-> "none"] ]
    /\ EarlierIdle /\ CacheIdle /\ ConnIdle /\ SrvIdle /\ BridgeIdle /\ TempIdle

NextRace ==
    \E p \in Procs :
        \/ RaceRunStarts(p)
        \/ RaceCheck(p)
        \/ RacePrepare(p)
        \/ RaceInstallStarts(p)
        \/ RaceInstallWrites(p)
        \/ RaceInstallEnds(p)
        \/ RaceExecStarts(p)
        \/ RaceExecEnds(p)

SpecRace == InitRace /\ [][NextRace]_vars

\* C34: when two Run invocations with the same package list execute
\* concurrently against the same cache root, under every interleaving
\* neither executes its script against a deps/<key> tree whose installation
\* has not completed, and the two never run the installer in the same
\* deps/<key> directory at the same time.
C34_ConcurrentRunsShareCacheSafely ==
    /\ \A p \in Procs : race.ranOn[p] \in {"none", "complete"}
    /\ ~race.together

\* One invocation at a time keeps both.
OneRunAtATime == \E p \in Procs : race.pc[p] = "idle"
SequentialRunsShareCacheSafely ==
    [](OneRunAtATime) => [](C34_ConcurrentRunsShareCacheSafely)

(***************************************************************************)
(* The Index starting from an empty cache directory: every file it reads   *)
(* is one it wrote.                                                        *)
(***************************************************************************)

InitIndexOwn ==
    /\ idxFiles = NoIndexFiles
    /\ now = 0
    /\ idxOut = NoIndexCall
    /\ RunAtRest /\ HashIdle /\ ResIdle /\ ProxyIdle /\ BinIdle /\ MgrIdle /\ CallIdle /\ LaterIdle

SpecIndexOwn == InitIndexOwn /\ [][NextIndex]_vars

\* Descending semver precedence.
IsDescending(l) == \A i \in 1..(Len(l) - 1) : Compare(l[i], l[i + 1]) >= 0

\* The versions of a feed whose release is neither draft nor prerelease
\* and whose tag the regex matches.
StableOf(feed) ==
    { NewVersion(SubSeq(feed.releases[i].tag, 2, Len(feed.releases[i].tag))).v :
        i \in { j \in DOMAIN feed.releases :
                  /\ ~feed.releases[j].draft /\ ~feed.releases[j].prerelease
                  /\ TagMatches(feed.releases[j].tag) } }

Originals(l) == [i \in DOMAIN l |-> Original(l[i])]

\* C35: every list GetVersions returns, freshly fetched, loaded from a
\* fresh cache or loaded as a stale fallback, is sorted in descending semver
\* precedence and holds only versions whose release was neither draft nor
\* prerelease and whose tag matched ^bun-v(\d+\.\d+\.\d+)$, after any
\* sequence of fetch, persist and load operations of the Index; and a list
\* loaded from the cache equals the list that was persisted.
C35_Step ==
    (IndexCalled /\ idxOut'.ok) =>
        /\ IsDescending(idxOut'.versions)
        /\ \E feed \in Feeds :
              /\ feed.ok
              /\ \A i \in DOMAIN idxOut'.versions : idxOut'.versions[i] \in StableOf(feed)
              /\ ~idxOut'.fetchOK =>
                    /\ idxFiles.versions.body = Originals(fetchVersions(feed).versions)
                    /\ idxOut'.versions = fetchVersions(feed).versions

C35_ReturnedListsSortedStable == [][C35_Step]_vars

\* A stale list of two versions was returned after a failed fetch.
C35_Witness ==
    /\ idxOut.ok /\ idxOut.fetched /\ ~idxOut.fetchOK
    /\ Len(idxOut.versions) = 2
    /\ idxFiles.versions.body = Originals(idxOut.versions)

(***************************************************************************)
(* Runner.Run from its first statement to its return, with the temporary   *)
(* file of a script read from standard input and the deferred calls.       *)
(***************************************************************************)

\* Exit statuses of the interpreter that Run hands on.
ScriptExitCodes == {0, 2}

\* Run has just been called. script is opts.Script; sandboxed is whether
\* opts.Sandbox isolates; packages whether the script names any.
RunCalled(script, sandboxed, packages) ==
    [ script |-> script, sandboxed |-> sandboxed, packages |-> packages,
      pc |-> "read", file |-> "none", defers |-> << >>, scriptPath |-> "",
      proxy |-> "none", code |-> -1, err |-> "" ]

\* A return that runs no deferred call.
SkipDeferred(t) == t

\* A return statement of Run: the deferred calls run, last registered
\* first, and os.Remove takes the temporary file away.
RunDeferred(t) ==
    [t EXCEPT !.defers = << >>,
              !.file = IF \E i \in DOMAIN t.defers : t.defers[i] = "remove-temp"
                       THEN "removed" ELSE t.file,
              !.proxy = IF \E i \in DOMAIN t.defers : t.defers[i] = "stop-proxy"
                        THEN "stopped" ELSE t.proxy]

\* return code, err
Return(t, code, err) ==
    [RunDeferred([t EXCEPT !.pc = "returned"]) EXCEPT !.code = code, !.err = err]

StayOutsideTemp ==
    StayEarlier /\ UNCHANGED << cacheVars, connVars, srvVars, bridgeVars, raceVars >>

\* os.ReadFile("/dev/stdin"), or filepath.Abs and os.ReadFile of the script.
TempRead(ok) ==
    /\ temp.pc = "read"
    /\ temp' = IF ~ok
               THEN Return(temp, 1, IF temp.script = "-" THEN "failed to read stdin"
                                    ELSE "script not found")
               ELSE IF temp.script = "-" THEN [temp EXCEPT !.pc = "create"]
               ELSE [temp EXCEPT !.pc = "parse", !.scriptPath = "/cwd/a.ts"]
    /\ StayOutsideTemp

\* os.CreateTemp("", "buns-*.ts") and the defer of os.Remove.
TempCreate(ok) ==
    /\ temp.pc = "create"
    /\ temp' = IF ~ok THEN Return(temp, 1, "failed to create temp file")
               ELSE [temp EXCEPT !.pc = "write", !.file = "open",
                                 !.defers = << "remove-temp" >> \o temp.defers]
    /\ StayOutsideTemp

\* tmpFile.Write(content); tmpFile.Close(); scriptPath = tmpFile.Name()
TempWrite(ok) ==
    /\ temp.pc = "write"
    /\ temp' = IF ~ok THEN Return(temp, 1, "failed to write temp file")
               ELSE [temp EXCEPT !.pc = "parse", !.file = "closed",
                                 !.scriptPath = "/tmp/buns-1.ts"]
    /\ StayOutsideTemp

\* metadata.Parse, Resolve, GetBinary, installDeps: each goes on or returns 1.
TempStep(at, ok, next, err) ==
    /\ temp.pc = at
    /\ temp' = IF ok THEN [temp EXCEPT !.pc = next] ELSE Return(temp, 1, err)
    /\ StayOutsideTemp

TempParse(ok) == TempStep("parse", ok, "resolve", "failed to parse metadata")
TempResolve(ok) == TempStep("resolve", ok, "download", "no Bun version satisfies")
TempDownload(ok) ==
    TempStep("download", ok, IF temp.packages THEN "install" ELSE "start", "failed to download Bun")
TempInstall(ok) == TempStep("install", ok, "start", "failed to install dependencies")

\* execScriptSandboxed up to sb.Execute (the proxy started, Stop deferred),
\* or execScript up to cmd.Run: the backend starts executing.
TempExecStarts(proxyOK) ==
    /\ temp.pc = "start"
    /\ temp' = IF temp.sandboxed /\ ~proxyOK THEN Return(temp, 1, "failed to start proxy")
               ELSE IF temp.sandboxed
               THEN [temp EXCEPT !.pc = "exec", !.proxy = "started",
                                 !.defers = << "stop-proxy" >> \o temp.defers]
               ELSE [temp EXCEPT !.pc = "exec"]
    /\ StayOutsideTemp

\* The backend is done: an execution error, or the interpreter's status.
TempExecEnds(ok, code) ==
    /\ temp.pc = "exec"
    /\ temp' = IF ~ok THEN Return(temp, 1, "execution failed") ELSE Return(temp, code, "")
    /\ StayOutsideTemp

InitTemp ==
    /\ temp \in {RunCalled(sc, sa, pk) : sc \in {"-", "a.ts"}, sa \in BOOLEAN, pk \in BOOLEAN}
    /\ EarlierIdle /\ CacheIdle /\ ConnIdle /\ SrvIdle /\ BridgeIdle /\ RaceIdle

NextTemp ==
    \/ \E ok \in BOOLEAN : TempRead(ok)
    \/ \E ok \in BOOLEAN : TempCreate(ok)
    \/ \E ok \in BOOLEAN : TempWrite(ok)
    \/ \E ok \in BOOLEAN : TempParse(ok)
    \/ \E ok \in BOOLEAN : TempResolve(ok)
    \/ \E ok \in BOOLEAN : TempDownload(ok)
    \/ \E ok \in BOOLEAN : TempInstall(ok)
    \/ \E ok \in BOOLEAN : TempExecStarts(ok)
    \/ \E ok \in BOOLEAN, code \in ScriptExitCodes : TempExecEnds(ok, code)

SpecTemp == InitTemp /\ [][NextTemp]_vars

\* C36: when the script argument is "-", the temporary .ts file holding the
\* standard-input bytes exists for the whole time the backend executes and
\* has been removed when Run returns, on every exit path after its creation
\* (write failure, metadata parse error, resolution failure, download
\* failure, install failure, execution error, non-zero exit, success).
C36_TempFileLivesForTheRun ==
    temp.script = "-" =>
        /\ temp.pc = "exec" => temp.file = "closed" /\ temp.scriptPath = "/tmp/buns-1.ts"
        /\ temp.pc = "returned" => temp.file \in {"none", "removed"}
        /\ (temp.pc = "returned" /\ temp.err # "failed to read stdin"
               /\ temp.err # "failed to create temp file") => temp.file = "removed"

\* Run has returned a non-zero exit status of the interpreter and the
\* temporary file is gone.
C36_Witness ==
    /\ temp.script = "-" /\ temp.pc = "returned" /\ temp.code = 2 /\ temp.err = ""
    /\ temp.file = "removed"

\* The entries of an allow list that are not blank.
NonBlank(allowed) == {allowed[i] : i \in {j \in DOMAIN allowed : TrimSpace(allowed[j]) # << >>}}

\* C37: a proxy manager built from an empty AllowedHosts list permits every
\* host, and one built from a non-empty list permits only hosts that match
\* one of its non-blank entries: blank or whitespace-only entries add no
\* rule and never switch the filter to allow-all, so a list made only of
\* blank entries permits no host.
C37_BlankEntriesAddNoRule ==
    (callOut # << >> /\ callIn.fn = "IsAllowed") =>
        /\ callIn.allowed = << >> => callOut[1]
        /\ callIn.allowed # << >> =>
              (callOut[1] =>
                  \E e \in NonBlank(callIn.allowed) :
                      RuleMatches(NormalizeHost(e), NormalizeHost(callIn.host)))
        /\ (callIn.allowed # << >> /\ NonBlank(callIn.allowed) = {}) => ~callOut[1]
        /\ ManagerFilter(callIn.allowed).rules
              = {NormalizeHost(e) : e \in NonBlank(callIn.allowed)}
        /\ ManagerFilter(callIn.allowed).allowAll <=> callIn.allowed = << >>

\* A host was refused by a filter built from blank entries only.
C37_Witness ==
    /\ callOut # << >> /\ callIn.fn = "IsAllowed"
    /\ callIn.allowed = << << >>, HostBlank >>
    /\ callIn.host = HostAB /\ ~callOut[1]

(***************************************************************************)
(* parsePackageSpec: the copy of package npm next to the copy of package   *)
(* exec. Indexes are counted from 1, so that Go's idx > 0 reads idx > 1.   *)
(***************************************************************************)

MaxSpec == 4

\* parsePackageSpec of internal/npm: name and constraint.
npmParsePackageSpec(pkgSpec) ==
    IF HasPrefix(pkgSpec, << "@" >>)
    THEN LET idx == LastIndexOf(pkgSpec, "@")
         IN IF idx > 1 /\ idx # IndexOf(pkgSpec, "@")
            THEN [name |-> SubSeq(pkgSpec, 1, idx - 1),
                  constraint |-> SubSeq(pkgSpec, idx + 1, Len(pkgSpec))]
            ELSE [name |-> pkgSpec, constraint |-> << >>]
    ELSE LET idx == IndexOf(pkgSpec, "@")
         IN IF idx > 1
            THEN [name |-> SubSeq(pkgSpec, 1, idx - 1),
                  constraint |-> SubSeq(pkgSpec, idx + 1, Len(pkgSpec))]
            ELSE [name |-> pkgSpec, constraint |-> << >>]

\* The package specs the two copies are applied to.
PackageSpecs == SeqUpTo({"@", "a", "/"}, MaxSpec)

CallParsePackageSpec ==
    Apply("parsePackageSpec",
          [exec |-> parsePackageSpec(callIn.pkgSpec), npm |-> npmParsePackageSpec(callIn.pkgSpec)])

InitPackageSpec ==
    /\ callIn \in [fn : {"parsePackageSpec"}, pkgSpec : PackageSpecs]
    /\ callOut = << >>
    /\ OutsideCallIdle

NextPackageSpec == CallParsePackageSpec

SpecPackageSpec == InitPackageSpec /\ [][NextPackageSpec]_vars

\* Where the claim has the spec split: the last "@" of a spec that starts
\* with "@", the first "@" of any other, and never the leading character;
\* 0 when there is no such place.
SeparatorOf(str) ==
    LET ats == {i \in DOMAIN str : str[i] = "@"}
        pick == IF str # << >> /\ str[1] = "@"
                THEN {i \in ats : \A j \in ats : j <= i}
                ELSE {i \in ats : \A j \in ats : j >= i}
    IN IF \E i \in pick : i > 1 THEN CHOOSE i \in pick : TRUE ELSE 0

\* C38: parsePackageSpec splits a spec that starts with "@" at its last "@"
\* when that is not the leading one, and any other spec at its first "@"
\* when that is not at index 0; a spec with no such separator is returned
\* whole with an empty constraint. Whenever the returned constraint is
\* non-empty, name + "@" + constraint equals the input, and the two copies
\* of the function (packages npm and exec) return the same pair.
C38_ParsePackageSpecSplits ==
    (callOut # << >> /\ callIn.fn = "parsePackageSpec") =>
        LET str == callIn.pkgSpec
            k == SeparatorOf(str)
            e == callOut[1].exec
            n == callOut[1].npm
        IN /\ k # 0 => /\ n.name = SubSeq(str, 1, k - 1)
                       /\ n.constraint = SubSeq(str, k + 1, Len(str))
           /\ k = 0 => n.name = str /\ n.constraint = << >>
           /\ n.constraint # << >> => n.name \o << "@" >> \o n.constraint = str
           /\ e.name = n.name /\ e.version = n.constraint

\* A scoped spec with a constraint was split at its second "@".
C38_Witness ==
    /\ callOut # << >> /\ callIn.fn = "parsePackageSpec"
    /\ callIn.pkgSpec = << "@", "a", "@", "a" >>
    /\ callOut[1].npm = [name |-> << "@", "a" >>, constraint |-> << "a" >>]

====
